---- MODULE Spec2Model ----
(***************************************************************************)
(* State-machine model of the retrieval-augmented query pipeline of        *)
(* moneyme-qa-system: DocumentTracker (registry), DocumentService          *)
(* (ingestion), VectorStoreService (index, query cache), LLMHandler and    *)
(* ConversationManager (histories) and QASystem (orchestrator).            *)
(*                                                                         *)
(* Conventions.  The services are coroutines; QASystem's methods are       *)
(* written without "await" under the asynchronous handle_errors wrapper    *)
(* that their callers await.  A call to a coroutine method is modelled as  *)
(* running the callee to completion, here as in the services, and the      *)
(* arguments are those the source passes.  Every suspension point of the   *)
(* callee (file read, database statement, thread off-load, embedding,      *)
(* similarity search) is a step boundary at which other requests may run.  *)
(* Code between two suspension points is one atomic step, as under a       *)
(* single asyncio event loop.  LLMHandler awaits the provider's            *)
(* generate_response, which is an ordinary function: that call is          *)
(* modelled the same way, as made and its value taken, and as a step       *)
(* boundary.  FAISS, cachetools                                            *)
(* and sqlite are modelled by their contracts: save_local / load_local     *)
(* write / read the whole index, TTLCache(maxsize, ttl) evicts the least   *)
(* recently used key when full and drops a key ttl seconds after it was    *)
(* set, and a UNIQUE column rejects a second equal value.                  *)
(***************************************************************************)
EXTENDS Integers, Sequences, FiniteSets, TLC

\* ---------------------------------------------------------------- bounds
MaxPuts == 2        \* files written into the upload directory
Horizon == 1        \* clock horizon, in multiples of the cache TTL
MaxRestarts == 1    \* process restarts
MaxCalls == 2       \* requests started, when requests run concurrently
MaxSeqCalls == 4    \* requests started, when they run one at a time
MaxIngestCalls == 3 \* direct process_document calls started
MaxRebuildCalls == 3 \* uploads and direct queries started, run concurrently
MaxAppends == 12    \* messages appended to one session since it was created
MaxChatCalls == 3   \* chat, single-query and clear requests started
MaxTrackCalls == 3  \* ingest and add calls of the one caller
MaxWordSteps == 7   \* an answer has 0, 9, ... 9 * MaxWordSteps words
MaxOverlapSteps == 4 \* 0, 6, ... 6 * MaxOverlapSteps words occur in the context
MaxSyllablesPerWord == 2
MaxScoreCalls == 2  \* scoring calls started, run by two callers
MaxPersistCalls == 3 \* uploads and direct loads and saves started
MaxSessionCalls == 4 \* calls of the session manager started
MaxEnsureCalls == 4 \* uploads, then a single query and a chat request
MaxUnits == 2       \* units (text sections, tables) extracted from a document
MaxLines == 3       \* lines of a text section
MaxChunkCalls == 2  \* chunking calls started

\* ------------------------------------------------------ program constants
CacheMaxSize == 100   \* TTLCache(maxsize=100, ...)
CacheTTL == 3600      \* TTLCache(..., ttl=3600)
TopK == 3             \* asimilarity_search(query_text, k=3)
MaxHistory == 10      \* ConversationManager(max_history=10)
NumKeywords == 6      \* the keywords list of _evaluate_answer_quality
SessionTimeoutMinutes == 30 \* SessionManager(session_timeout=30)
ChunkSize == 1000     \* MetadataTextSplitter(chunk_size=1000, ...)
ChunkOverlap == 200   \* MetadataTextSplitter(..., chunk_overlap=200)
MaxAge == 3600        \* prune_old_conversations(max_age=3600)

\* ------------------------------------------------------------ input sets
Procs == {1, 2}
Paths == {"a.pdf", "b.pdf", "n.txt"}
NoFile == "none"
\* file contents (identified with their MD5 digest): two documents with
\* text, a PDF without extractable content, and a corrupt file.
Contents == {"A", "B", "E", "X"}
\* query texts are numbered; Probe is the text the cache observer follows
Probe == 0
Texts == {1, 2}
NoPath == "none"
\* session ids are numbered: NoSession is None or the empty string,
\* BadSession a string that is not a UUID, the positive numbers are UUIDs
NoSession == 0
BadSession == -1
SessionIds == {1, 2}
\* message texts are numbers: a question is its query text, the provider's
\* answer to question q is Answer(q)
Answer(q) == q + 10
\* the text OllamaProvider.generate_response returns when the model call
\* raises ("Error generating response: ...")
ErrorText == 99
NoText == 0

VARIABLES
    files,         \* upload directory: path -> content or NoFile
    puts,          \* number of files written so far (bounded by MaxPuts)
    registry,      \* rows of the documents table, in insertion order
    lastPdf,       \* content of ~/last_pdf.txt, NoPath when the file is absent
    disk,          \* index directory: index.faiss / index.pkl and what they hold
    vector_store,  \* VectorStoreService.vector_store
    query_cache,   \* VectorStoreService.query_cache, least recently used first
    now,           \* clock (seconds)
    restarts,      \* number of restarts so far (bounded by MaxRestarts)
    calls,         \* number of requests started so far
    proc,          \* per request slot: position and locals of the running call
    obs,           \* observer of the cache: what query(Probe) last returned
    conversations, \* QASystem.conversation_manager.conversations
    llm_conversations, \* LLMHandler.conversation_manager.conversations
    appended,      \* observer of a ConversationManager: per session, what
                   \* was appended since the session was last created
    sessions       \* session_manager.sessions: per session id, its Session

vars == <<files, puts, registry, lastPdf, disk, vector_store, query_cache, now,
          restarts, calls, proc, obs, conversations, llm_conversations,
          appended, sessions>>

chat == <<conversations, llm_conversations, appended, sessions>>

persistent == <<files, registry, lastPdf, disk>>
counters == <<puts, restarts, now>>

\* ------------------------------------------------------------ path checks
\* pdf_path.lower().endswith(".pdf")
EndsWithPdf(path) == path \in {"a.pdf", "b.pdf"}

\* os.path.exists(pdf_path)
PathExists(path) == files[path] # NoFile

\* ------------------------------------------------------------- registry
\* DocumentTracker.get_file_hash: the digest of the bytes now at path
get_file_hash(path) == files[path]

RegHashes(reg) == {reg[i].file_hash : i \in 1..Len(reg)}

\* SELECT ... FROM documents WHERE file_hash = ?  -> fetchone() is not None
HashNeverSelected(reg, hash) == FALSE
HashSelected(reg, hash) == hash \in RegHashes(reg)

\* the UNIQUE constraint on file_hash: an INSERT of a present hash is rejected
UniqueBroken(reg, hash) == FALSE
UniqueRejects(reg, hash) == hash \in RegHashes(reg)

\* INSERT INTO documents (file_hash, file_path, file_name) VALUES (?, ?, ?)
InsertRow(reg, hash, path) ==
    Append(reg, [file_hash |-> hash, file_path |-> path, file_name |-> path])

\* ---------------------------------------------------------------- parser
\* PDFParser.extract_sections_with_metadata on a file with the given content:
\* the chunks in document order.  "X" makes pdfplumber raise.
ParseFails(c) == c = "X"

\* json.dumps of the rows of a table (line 120), and json.loads of a page
\* content (vector_store_service.py line 141): table rows are written in
\* capitals, their JSON text in small letters; other text is not JSON
JsonDumps(data) ==
    CASE data = "A2" -> "a2"
      [] data = "B2" -> "b2"

JsonLoads(text) ==
    CASE text = "a2" -> [ok |-> TRUE, data |-> "A2"]
      [] text = "b2" -> [ok |-> TRUE, data |-> "B2"]
      [] OTHER       -> [ok |-> FALSE, data |-> "none"]

extract_sections_with_metadata(c) ==
    CASE c = "A" -> << [content |-> "a1", type |-> "text"],
                       [content |-> JsonDumps("A2"), type |-> "table"] >>
      [] c = "B" -> << [content |-> "b1", type |-> "text"],
                       [content |-> JsonDumps("B2"), type |-> "table"],
                       [content |-> "b3", type |-> "text"],
                       [content |-> "b4", type |-> "text"] >>
      [] OTHER   -> << >>

\* ---------------------------------------------------------- vector store
NoStore == [present |-> FALSE, docs |-> << >>]
NoDisk == [faiss |-> FALSE, pkl |-> FALSE, docs |-> << >>]

\* create_vector_store lines 49-73: the chunks of a known type, as Documents
Documents(chunks) ==
    SelectSeq(chunks, LAMBDA ch : ch.type \in {"text", "table"})

\* FAISS.afrom_documents(documents, embeddings): an index of every document
FaissDropsLast(documents) ==
    [present |-> TRUE, docs |-> SubSeq(documents, 1, Len(documents) - 1)]
FaissFromDocuments(documents) == [present |-> TRUE, docs |-> documents]

\* a check that looks for index.faiss only
FaissFileExists(d) == d.faiss

\* VectorStoreService.vector_store_exists
vector_store_exists(d) == d.faiss /\ d.pkl

\* a variant that only tests for None
IsNotNone(vs) == vs.present

\* VectorStoreService.is_loaded
is_loaded(vs) == vs.present /\ Len(vs.docs) > 0

\* FAISS.save_local / FAISS.load_local
\* a save_local that loses the last document
SaveLocalDropsLast(vs) ==
    [faiss |-> TRUE, pkl |-> TRUE, docs |-> SubSeq(vs.docs, 1, Len(vs.docs) - 1)]

SaveLocal(vs) == [faiss |-> TRUE, pkl |-> TRUE, docs |-> vs.docs]
LoadLocal(d) == [present |-> TRUE, docs |-> d.docs]

\* The embedding function, as the order of nearness it induces: for each
\* query text, every chunk content from nearest to farthest.
Nearness(q) ==
    IF q = 1 THEN << "a2", "b3", "b1", "a1", "b4", "b2" >>
    ELSE << "b1", "a1", "b2", "a2", "b4", "b3" >>

\* asimilarity_search(query_text, k): the k nearest documents of the index
RECURSIVE Nearest(_, _, _)
Nearest(docs, order, k) ==
    IF k = 0 \/ order = << >> THEN << >>
    ELSE LET hit == SelectSeq(docs, LAMBDA d : d.content = Head(order))
         IN  IF hit = << >> THEN Nearest(docs, Tail(order), k)
             ELSE <<Head(hit)>> \o Nearest(docs, Tail(order), k - 1)

\* a search that returns every document of the index
SearchAll(vs, q) == Nearest(vs.docs, Nearness(q), Len(vs.docs))

similarity_search(vs, q) == Nearest(vs.docs, Nearness(q), TopK)

\* query lines 121-161: the processed results, as serialized by json.dumps.
\* A text document gives a record tagged text; a table document one tagged
\* table that carries the parsed rows, and none when its content is not
\* JSON; a document of another type a record tagged unknown.
RECURSIVE Processed(_)
Processed(results) ==
    IF results = << >> THEN << >>
    ELSE LET d == Head(results)
             one == CASE d.type = "text" ->
                           << [content |-> d.content, type |-> "text"] >>
                      [] d.type = "table" ->
                           IF JsonLoads(d.content).ok
                           THEN << [content |-> JsonLoads(d.content).data,
                                    type |-> "table"] >>
                           ELSE << >>
                      [] OTHER ->
                           << [content |-> d.content, type |-> "unknown"] >>
         IN  one \o Processed(Tail(results))

\* ------------------------------------------------------------ query cache
\* TTLCache entries [key, value, expires], least recently used first.
CacheContains(c, key, t) ==
    \E i \in 1..Len(c) : c[i].key = key /\ t < c[i].expires

CacheValue(c, key) ==
    LET i == CHOOSE j \in 1..Len(c) : c[j].key = key IN c[i].value

\* __getitem__: the key becomes the most recently used
CacheTouch(c, key) ==
    SelectSeq(c, LAMBDA e : e.key # key) \o SelectSeq(c, LAMBDA e : e.key = key)

\* expire(time): drop every entry whose time has come
CacheExpire(c, t) == SelectSeq(c, LAMBDA e : t < e.expires)

\* __setitem__: expire, evict the least recently used key when full, insert
CacheSetMax(c, key, value, t, maxsize) ==
    LET live == CacheExpire(c, t)
        rest == SelectSeq(live, LAMBDA e : e.key # key)
        room == IF Len(rest) = Len(live) /\ Len(live) >= maxsize
                THEN Tail(live) ELSE rest
    IN  Append(room, [key |-> key, value |-> value, expires |-> t + CacheTTL])

CacheSetOne(c, key, value, t) == CacheSetMax(c, key, value, t, 1)
CacheSet(c, key, value, t) == CacheSetMax(c, key, value, t, CacheMaxSize)

\* -------------------------------------------------- ConversationManager
\* conversations: a function from the session ids that have a history to
\* their deque of messages [role, content, timestamp], oldest first
NoConversations == << >>

\* SessionManager.sessions after construction
NoSessions == << >>

\* uuid.UUID(session_id) accepts the id
IsUuid(s) == s > 0

\* get_conversation
get_conversation(c, s) == IF s \in DOMAIN c THEN c[s] ELSE << >>

\* a deque that drops the new message when it is full
AppendDropsNew(d, m) == IF Len(d) >= MaxHistory THEN d ELSE Append(d, m)

\* a deque without maxlen
AppendUnbounded(d, m) == Append(d, m)

\* deque(maxlen=max_history).append: a full deque drops its oldest message
DequeAppend(d, m) ==
    IF Len(d) >= MaxHistory THEN Append(Tail(d), m) ELSE Append(d, m)

\* an append that reaches every session
AddMessageToAll(c, s, role, content, t) ==
    [k \in DOMAIN c \cup {s} |->
        DequeAppend(get_conversation(c, k),
                    [role |-> role, content |-> content, timestamp |-> t])]

\* add_message at clock t
add_message(c, s, role, content, t) ==
    [k \in DOMAIN c \cup {s} |->
        IF k = s
        THEN DequeAppend(get_conversation(c, s),
                         [role |-> role, content |-> content, timestamp |-> t])
        ELSE c[k]]

\* a clear that removes nothing
ClearKeeps(c, s) == c

\* clear_conversation
clear_conversation(c, s) == [k \in DOMAIN c \ {s} |-> c[k]]

\* get_conversation_history: role and content of each message
get_conversation_history(c, s) ==
    LET d == get_conversation(c, s)
    IN  [i \in 1..Len(d) |-> [role |-> d[i].role, content |-> d[i].content]]

\* get_conversation_summary: one line "Human: ..." or "AI: ..." per message
get_conversation_summary(c, s) ==
    LET d == get_conversation(c, s)
    IN  [i \in 1..Len(d) |->
            [who |-> IF d[i].role = "user" THEN "Human" ELSE "AI",
             content |-> d[i].content]]

\* a prune that looks at the newest message of a session
PruneByNewest(c, t, max_age) ==
    LET old == {s \in DOMAIN c :
                   c[s] # << >> /\ t - c[s][Len(c[s])].timestamp > max_age}
    IN  [k \in DOMAIN c \ old |-> c[k]]

\* prune_old_conversations at clock t
prune_old_conversations(c, t, max_age) ==
    LET old == {s \in DOMAIN c :
                   c[s] # << >> /\ t - c[s][1].timestamp > max_age}
    IN  [k \in DOMAIN c \ old |-> c[k]]

\* -------------------------------------------------------- error handling
\* utils/error_handler.py: the classes handle_errors re-raises unchanged
Recognised ==
    {"VectorStoreError", "DocumentProcessingError", "LLMError",
     "InvalidInputError", "ConfigurationError"}

\* handle_errors: 1 when the exception is replaced by
\* QASystemError("An unexpected error occurred: ..."), else 0
handle_errors(kind) == IF kind \in Recognised THEN 0 ELSE 1

\* the QASystemErrors the orchestrator raises when no index can be served
\* (qa_system.py lines 36, 41 and 124)
NoIndexAvailable == {"NoPdfProcessed", "NotLoaded", "NoVectorStoreFound"}

\* the QASystemErrors the orchestrator raises about a session id
\* (qa_system.py lines 81 and 167)
SessionErrors == {"InvalidSession", "SessionNotFound"}

\* ------------------------------------------------------- request slots
\* sid is the session id of the call, uuid the value uuid4 has for it, hist
\* the conversation history it returns; prompt is what the call sends to
\* the provider, answer what it returns as the answer, failed whether the
\* model call raised; args holds the arguments of a call of a function;
\* pc is the suspension point the call waits at; wrote records whether this
\* call has changed the registry or the last-ingested pointer; searched
\* whether it ran a similarity search; gen whether it called the generator.
Idle ==
    [pc |-> "idle", op |-> "none", path |-> NoPath, q |-> -1,
     hash |-> NoFile, secs |-> << >>, tmp |-> NoStore, out |-> "none",
     wraps |-> 0, ret |-> << >>, gen |-> FALSE, searched |-> FALSE,
     wrote |-> FALSE, sid |-> NoSession, uuid |-> NoSession, hist |-> << >>,
     prompt |-> << >>, answer |-> NoText, failed |-> FALSE, args |-> << >>]

Set(p, rec) == proc' = [proc EXCEPT ![p] = rec]

\* LLMHandler._create_prompt: context, conversation history and question
_create_prompt(context, question, conversation_history) ==
    << context, conversation_history, question >>

\* the call ends: with "ok" and a result, or with an exception.  A QASystem
\* method is wrapped by handle_errors; the query methods also re-wrap, in
\* their own except clauses, whatever is not a QASystemError.
Raised(rec, kind) ==
    [rec EXCEPT !.pc = "done", !.out = kind, !.hash = NoFile, !.secs = << >>,
                !.tmp = NoStore,
                !.wraps = CASE rec.op \in {"ingest", "add"} -> 0
                            [] rec.op \in {"upload", "clear"} ->
                                  handle_errors(kind)
                            [] OTHER -> IF kind \in NoIndexAvailable
                                                  \cup SessionErrors
                                        THEN handle_errors(kind)
                                        ELSE 1 + handle_errors(kind)]

Returned(rec, value) ==
    [rec EXCEPT !.pc = "done", !.out = "ok", !.ret = value, !.hash = NoFile,
                !.secs = << >>, !.tmp = NoStore]

\* the query has its serialized results: a direct caller of
\* VectorStoreService.query gets them, the orchestrator goes on to
\* LLMHandler.generate_response and calls the provider
\* (process_chat_query first settles the session id, lines 74-81: an absent
\* id is replaced by a new UUID, an id that is not a UUID is refused;
\* generate_response builds its prompt, lines 35-56, before the provider
\* is called)
AfterQuery(rec, value) ==
    IF rec.op = "query" THEN Returned(rec, value)
    ELSE IF rec.op = "chat" /\ rec.sid # NoSession /\ ~IsUuid(rec.sid)
    THEN Raised(rec, "InvalidSession")
    ELSE LET sid == IF rec.op = "chat" /\ rec.sid = NoSession
                    THEN rec.uuid ELSE rec.sid
         IN  [rec EXCEPT !.pc = "gen", !.gen = TRUE, !.ret = value,
                         !.sid = sid,
                         !.prompt = _create_prompt(
                             value, rec.q,
                             get_conversation_summary(llm_conversations, sid))]

\* a step that changes nothing but the slots
Local == UNCHANGED <<chat, persistent, counters, calls, vector_store, query_cache, obs>>

\* ------------------------------------------------------------------ Init
ObsInit == [at |-> -1, val |-> << >>, others |-> 0, fill |-> 0]

Init ==
    /\ files = [x \in Paths |-> NoFile]
    /\ puts = 0
    /\ registry = << >>
    /\ lastPdf = NoPath
    /\ disk = NoDisk
    /\ vector_store = NoStore
    /\ query_cache = << >>
    /\ now = 0
    /\ restarts = 0
    /\ calls = 0
    /\ proc = [p \in Procs |-> Idle]
    /\ obs = ObsInit
    /\ conversations = NoConversations
    /\ llm_conversations = NoConversations
    /\ appended = NoConversations
    /\ sessions = NoSessions

\* ----------------------------------------------------------- environment
\* A file is written into the upload directory (upload_pdf lines 195-199,
\* handle_upload_mode line 35), replacing what was at that path.
PutFile(path, c) ==
    /\ puts < MaxPuts
    /\ files' = [files EXCEPT ![path] = c]
    /\ puts' = puts + 1
    /\ UNCHANGED <<chat, registry, lastPdf, disk, vector_store, query_cache, now,
                   restarts, calls, proc, obs>>

\* Time passes.
Tick(d) ==
    /\ now + d <= Horizon * CacheTTL
    /\ now' = now + d
    /\ UNCHANGED <<chat, persistent, puts, restarts, calls, vector_store,
                   query_cache, proc, obs>>

\* The process is stopped between requests and started again: QASystem is
\* constructed anew and the start-up hook loads the persisted index if its
\* files exist.
Restart ==
    /\ restarts < MaxRestarts
    /\ \A p \in Procs : proc[p].pc = "idle"
    /\ restarts' = restarts + 1
    /\ vector_store' = IF vector_store_exists(disk) THEN LoadLocal(disk)
                       ELSE NoStore
    /\ query_cache' = << >>
    /\ conversations' = NoConversations
    /\ llm_conversations' = NoConversations
    /\ sessions' = NoSessions
    /\ UNCHANGED <<persistent, puts, now, calls, proc, obs, appended>>

\* ------------------------------------------ DocumentService.process_document
\* lines 41-47, up to the first suspension
PdEntry(rec) ==
    IF ~PathExists(rec.path) THEN Raised(rec, "PdfNotFound")
    ELSE IF ~EndsWithPdf(rec.path) THEN Raised(rec, "NotAPdf")
    ELSE [rec EXCEPT !.pc = "pd_hash"]

\* process_document has returned its chunks.  A direct caller gets them;
\* load_or_create_vector_store goes on into create_vector_store, which
\* raises when no Document results and otherwise starts embedding.
\* a variant without the check of lines 75-76
AfterIngestUnchecked(rec, chunks) ==
    IF rec.op \in {"ingest", "add"} THEN Returned(rec, chunks)
    ELSE [rec EXCEPT !.pc = "cv_build", !.secs = chunks]

AfterIngest(rec, chunks) ==
    IF rec.op \in {"ingest", "add"} THEN Returned(rec, chunks)
    ELSE IF Documents(chunks) = << >> THEN Raised(rec, "NoValidDocuments")
    ELSE [rec EXCEPT !.pc = "cv_build", !.secs = chunks]

\* A caller invokes DocumentService.process_document(path, name) directly.
IngestCall(p, path) ==
    /\ proc[p].pc = "idle"
    /\ calls' = calls + 1
    /\ Set(p, PdEntry([Idle EXCEPT !.op = "ingest", !.path = path]))
    /\ UNCHANGED <<chat, persistent, counters, vector_store, query_cache, obs>>

\* is_document_processed: the file is read and hashed
PdHash(p) ==
    /\ proc[p].pc = "pd_hash"
    /\ Set(p, [proc[p] EXCEPT !.pc = "pd_select",
                              !.hash = get_file_hash(proc[p].path)])
    /\ Local

\* a variant that registers the document before it is parsed
PdSelectRegisters(p) ==
    /\ proc[p].pc = "pd_select"
    /\ registry' = IF HashSelected(registry, proc[p].hash) THEN registry
                   ELSE InsertRow(registry, proc[p].hash, proc[p].path)
    /\ Set(p, IF HashSelected(registry, proc[p].hash)
              THEN AfterIngest(proc[p], << >>)
              ELSE [proc[p] EXCEPT !.pc = "pd_parse"])
    /\ UNCHANGED <<chat, files, lastPdf, disk, counters, calls, vector_store,
                   query_cache, obs>>

\* is_document_processed: the SELECT; a known document returns []
PdSelect(p) ==
    /\ proc[p].pc = "pd_select"
    /\ Set(p, IF HashSelected(registry, proc[p].hash)
              THEN AfterIngest(proc[p], << >>)
              ELSE [proc[p] EXCEPT !.pc = "pd_parse"])
    /\ Local

\* PDFParser.extract_sections_with_metadata (in a worker thread)
PdParse(p) ==
    /\ proc[p].pc = "pd_parse"
    /\ Set(p, IF ParseFails(files[proc[p].path])
              THEN Raised(proc[p], "ParseError")
              ELSE [proc[p] EXCEPT
                      !.pc = "add_hash",
                      !.secs = extract_sections_with_metadata(files[proc[p].path])])
    /\ Local

\* --------------------------------------------- DocumentTracker.add_document
AddHash(p) ==
    /\ proc[p].pc = "add_hash"
    /\ Set(p, [proc[p] EXCEPT !.pc = "add_select",
                              !.hash = get_file_hash(proc[p].path)])
    /\ Local

\* lines 58-67: the SELECT; a present hash skips the INSERT
AddSelect(p) ==
    /\ proc[p].pc = "add_select"
    /\ Set(p, [proc[p] EXCEPT !.pc = IF HashSelected(registry, proc[p].hash)
                                     THEN "save_ptr" ELSE "add_insert"])
    /\ Local

\* lines 69-73: INSERT and commit
AddInsert(p) ==
    /\ proc[p].pc = "add_insert"
    /\ IF UniqueRejects(registry, proc[p].hash)
       THEN /\ Set(p, Raised(proc[p], "IntegrityError"))
            /\ UNCHANGED registry
       ELSE /\ registry' = InsertRow(registry, proc[p].hash, proc[p].path)
            /\ Set(p, [proc[p] EXCEPT !.pc = "save_ptr", !.wrote = TRUE])
    /\ UNCHANGED <<chat, files, lastPdf, disk, counters, calls, vector_store,
                   query_cache, obs>>

\* DocumentService._save_last_pdf, then process_document returns its chunks
SavePtr(p) ==
    /\ proc[p].pc = "save_ptr"
    /\ lastPdf' = proc[p].path
    /\ Set(p, AfterIngest([proc[p] EXCEPT !.wrote = TRUE], proc[p].secs))
    /\ UNCHANGED <<chat, files, registry, disk, counters, calls, vector_store,
                   query_cache, obs>>

\* A caller invokes DocumentService.add_document(path, name) directly: the
\* tracker's add_document, then _save_last_pdf, whether or not a row was
\* inserted.  Opening a missing file to hash it raises.
AddCall(p, path) ==
    /\ proc[p].pc = "idle"
    /\ calls' = calls + 1
    /\ Set(p, IF ~PathExists(path)
              THEN Raised([Idle EXCEPT !.op = "add", !.path = path],
                          "FileNotFound")
              ELSE [Idle EXCEPT !.op = "add", !.path = path,
                                !.pc = "add_hash"])
    /\ UNCHANGED <<chat, persistent, counters, vector_store, query_cache, obs>>

\* ------------------------------------------ VectorStoreService.load_vector_store
\* lines 93-94, up to the thread off-load
LoadEntry(rec) ==
    IF ~vector_store_exists(disk) THEN Raised(rec, "IndexNotFound")
    ELSE [rec EXCEPT !.pc = "ld_read"]

\* ----------------------------------------- QASystem.load_or_create_vector_store
\* The upload paths call load_or_create_vector_store(path, filename).
LoadOrCreateCall(p, path) ==
    /\ proc[p].pc = "idle"
    /\ calls' = calls + 1
    /\ LET rec == [Idle EXCEPT !.op = "upload", !.path = path]
       IN  Set(p, IF ~PathExists(path) THEN Raised(rec, "PdfNotFound")
                  ELSE [rec EXCEPT !.pc = "lc_hash"])
    /\ UNCHANGED <<chat, persistent, counters, vector_store, query_cache, obs>>

\* line 133, is_document_processed: the file is read and hashed
LcHash(p) ==
    /\ proc[p].pc = "lc_hash"
    /\ Set(p, [proc[p] EXCEPT !.pc = "lc_select",
                              !.hash = get_file_hash(proc[p].path)])
    /\ Local

\* line 133, the SELECT: a new document is processed, a known one makes the
\* persisted index be loaded
LcSelect(p) ==
    /\ proc[p].pc = "lc_select"
    /\ Set(p, IF HashSelected(registry, proc[p].hash)
              THEN LoadEntry(proc[p])
              ELSE PdEntry(proc[p]))
    /\ Local

\* create_vector_store line 78: the index is complete when afrom_documents
\* returns and is assigned then; save_vector_store hands this index to the
\* saving thread
CvBuild(p) ==
    /\ proc[p].pc = "cv_build"
    /\ vector_store' = FaissFromDocuments(Documents(proc[p].secs))
    /\ Set(p, [proc[p] EXCEPT !.pc = "sv_save", !.tmp = vector_store'])
    /\ UNCHANGED <<chat, persistent, counters, calls, query_cache, obs>>

\* save_vector_store line 86: save_local of the index handed over
SvSave(p) ==
    /\ proc[p].pc = "sv_save"
    /\ disk' = SaveLocal(proc[p].tmp)
    /\ Set(p, Returned(proc[p], << >>))
    /\ UNCHANGED <<chat, files, registry, lastPdf, counters, calls, vector_store,
                   query_cache, obs>>

\* load_vector_store lines 97-102: load_local reads the index directory
LdRead(p) ==
    /\ proc[p].pc = "ld_read"
    /\ Set(p, [proc[p] EXCEPT !.pc = "ld_assign", !.tmp = LoadLocal(disk)])
    /\ Local

\* ------------------------------------------------ VectorStoreService.query
\* lines 111-120, up to the similarity search: a live cache entry is
\* returned at once; otherwise the search is started on the index that
\* vector_store refers to at this moment
\* a variant without the check of line 115
QueryEntryUnchecked(p, rec, vs) ==
    IF CacheContains(query_cache, rec.q, now)
    THEN /\ query_cache' = CacheTouch(query_cache, rec.q)
         /\ Set(p, AfterQuery(rec, CacheValue(query_cache, rec.q)))
    ELSE /\ UNCHANGED query_cache
         /\ Set(p, [rec EXCEPT !.pc = "q_search", !.tmp = vs])

QueryEntry(p, rec, vs) ==
    IF CacheContains(query_cache, rec.q, now)
    THEN /\ query_cache' = CacheTouch(query_cache, rec.q)
         /\ Set(p, AfterQuery(rec, CacheValue(query_cache, rec.q)))
    ELSE /\ UNCHANGED query_cache
         /\ Set(p, IF ~vs.present THEN Raised(rec, "NotCreated")
                   ELSE [rec EXCEPT !.pc = "q_search", !.tmp = vs])

\* A caller invokes VectorStoreService.query(text) directly.
QueryCall(p, q) ==
    /\ proc[p].pc = "idle"
    /\ calls' = calls + 1
    /\ QueryEntry(p, [Idle EXCEPT !.op = "query", !.q = q], vector_store)
    /\ UNCHANGED <<chat, persistent, counters, vector_store>>

\* lines 120-161: the search returns; its results are processed, cached and
\* returned
QSearch(p) ==
    /\ proc[p].pc = "q_search"
    /\ LET value == Processed(similarity_search(proc[p].tmp, proc[p].q))
       IN  /\ query_cache' = CacheSet(query_cache, proc[p].q, value, now)
           /\ Set(p, AfterQuery([proc[p] EXCEPT !.searched = TRUE], value))
    /\ UNCHANGED <<chat, persistent, counters, calls, vector_store>>

\* load_vector_store line 97: the loaded index is assigned.  The upload
\* path and a direct load are done; the chat path goes on to query.
LdAssign(p) ==
    /\ proc[p].pc = "ld_assign"
    /\ vector_store' = proc[p].tmp
    /\ IF proc[p].op \in {"upload", "load"}
       THEN /\ Set(p, Returned(proc[p], << >>))
            /\ UNCHANGED query_cache
       ELSE QueryEntry(p, proc[p], vector_store')
    /\ UNCHANGED <<chat, persistent, counters, calls>>

\* ------------------------------------------- QASystem.process_single_query
\* lines 28-45.  With a pdf_path, and with a recorded last PDF, the method
\* calls load_or_create_vector_store with one argument, which raises
\* TypeError (original_filename is required).
SingleCall(p, q, pdf) ==
    /\ proc[p].pc = "idle"
    /\ calls' = calls + 1
    /\ LET rec == [Idle EXCEPT !.op = "single", !.q = q, !.path = pdf]
       IN  IF pdf # NoPath
           THEN Set(p, Raised(rec, "TypeError")) /\ UNCHANGED query_cache
           ELSE IF ~is_loaded(vector_store)
           THEN /\ Set(p, IF lastPdf = NoPath THEN Raised(rec, "NoPdfProcessed")
                          ELSE [rec EXCEPT !.pc = "sq_ptr"])
                /\ UNCHANGED query_cache
           ELSE QueryEntry(p, rec, vector_store)
    /\ UNCHANGED <<chat, persistent, counters, vector_store>>

\* lines 32-34: last_pdf.txt has been read
SqPtr(p) ==
    /\ proc[p].pc = "sq_ptr"
    /\ Set(p, Raised(proc[p], "TypeError"))
    /\ Local

\* --------------------------------------------- QASystem.process_chat_query
\* lines 69-71 with _ensure_vector_store_loaded lines 113-124
ChatCall(p, q, pdf, sid) ==
    /\ proc[p].pc = "idle"
    /\ calls' = calls + 1
    /\ LET rec == [Idle EXCEPT !.op = "chat", !.q = q, !.path = pdf,
                               !.sid = sid, !.uuid = 100 + calls']
       IN  IF pdf # NoPath
           THEN Set(p, Raised(rec, "TypeError")) /\ UNCHANGED query_cache
           ELSE IF ~is_loaded(vector_store)
           THEN /\ Set(p, IF lastPdf = NoPath
                          THEN Raised(rec, "NoVectorStoreFound")
                          ELSE [rec EXCEPT !.pc = "cq_ptr"])
                /\ UNCHANGED query_cache
           ELSE QueryEntry(p, rec, vector_store)
    /\ UNCHANGED <<chat, persistent, counters, vector_store>>

\* lines 116-124: last_pdf.txt has been read; the persisted index is loaded
\* if its files exist
CqPtr(p) ==
    /\ proc[p].pc = "cq_ptr"
    /\ Set(p, IF vector_store_exists(disk) THEN LoadEntry(proc[p])
              ELSE Raised(proc[p], "NoVectorStoreFound"))
    /\ Local

\* a variant that records the answer before the question
ExchangeAnswerFirst(c, sid, question, answer, t) ==
    add_message(add_message(c, sid, "assistant", answer, t),
                sid, "user", question, t)

\* a variant that writes back the session's history as the new pair only
ExchangeOverwrites(c, sid, question, answer, t) ==
    [k \in DOMAIN c \cup {sid} |->
        IF k = sid
        THEN << [role |-> "user", content |-> question, timestamp |-> t],
                [role |-> "assistant", content |-> answer, timestamp |-> t] >>
        ELSE c[k]]

\* add_message of the question, then of the answer (llm_handler.py lines
\* 67-68, qa_system.py lines 89-92)
Exchange(c, sid, question, answer, t) ==
    add_message(add_message(c, sid, "user", question, t),
                sid, "assistant", answer, t)

\* LLMHandler.generate_response lines 58-77: the provider has answered; the
\* question and the answer are appended to the handler's history of the
\* session (None for a single query).  process_chat_query lines 86-103 then
\* appends both to the orchestrator's history and returns that history.
\* failed: the model call raised, and the provider returned its error text
\* (ollama_provider.py lines 38-40).
Gen(p, failed) ==
    /\ proc[p].pc = "gen"
    /\ LET response == IF failed THEN ErrorText ELSE Answer(proc[p].q)
           rec == [proc[p] EXCEPT !.answer = response, !.failed = failed]
       IN  /\ llm_conversations' =
                 Exchange(llm_conversations, rec.sid, rec.q, response, now)
           /\ IF rec.op = "chat"
              THEN /\ conversations' =
                        Exchange(conversations, rec.sid, rec.q, response, now)
                   /\ Set(p, Returned(
                             [rec EXCEPT !.hist = get_conversation_history(
                                                     conversations', rec.sid)],
                             rec.ret))
              ELSE /\ UNCHANGED conversations
                   /\ Set(p, Returned(rec, rec.ret))
    /\ UNCHANGED <<persistent, counters, calls, vector_store, query_cache,
                   obs, appended, sessions>>

\* ----------------------------------------------- QASystem.clear_conversation
\* lines 161-172: no suspension point
ClearCall(p, sid) ==
    /\ proc[p].pc = "idle"
    /\ calls' = calls + 1
    /\ LET rec == [Idle EXCEPT !.op = "clear", !.sid = sid]
       IN  IF ~IsUuid(sid)
           THEN Set(p, Raised(rec, "ValueError")) /\ UNCHANGED conversations
           ELSE IF get_conversation(conversations, sid) = << >>
           THEN /\ Set(p, Raised(rec, "SessionNotFound"))
                /\ UNCHANGED conversations
           ELSE /\ conversations' = clear_conversation(conversations, sid)
                /\ Set(p, Returned(rec, << >>))
    /\ UNCHANGED <<persistent, counters, vector_store, query_cache, obs,
                   llm_conversations, appended, sessions>>

\* The caller has its result; the slot is free for the next request.
Return(p) ==
    /\ proc[p].pc = "done"
    /\ Set(p, Idle)
    /\ Local

\* every request slot is free
Quiet == \A p \in Procs : proc[p].pc = "idle"

\* ------------------------------------------------------- specifications
\* The program: uploads and queries through QASystem, by the request slots
\* in ps, with at most max requests started.  Files are written into the
\* upload directory at any moment, or (quiet) only between requests; raising
\* holds the outcomes of the model call (TRUE: it raises).
Program(ps, max, quiet, raising) ==
    \/ \E path \in Paths, c \in Contents :
          /\ quiet => \A p \in ps : proc[p].pc = "idle"
          /\ PutFile(path, c)
    \/ Tick(CacheTTL)
    \/ Restart
    \/ \E p \in ps, path \in Paths :
          calls < max /\ LoadOrCreateCall(p, path)
    \/ \E p \in ps, q \in Texts, pdf \in {NoPath, "a.pdf"} :
          calls < max /\ SingleCall(p, q, pdf) /\ UNCHANGED obs
    \/ \E p \in ps, q \in Texts, pdf \in {NoPath, "a.pdf"},
         sid \in {NoSession, BadSession, 1} :
          calls < max /\ ChatCall(p, q, pdf, sid) /\ UNCHANGED obs
    \/ \E p \in ps, sid \in {BadSession, 1} :
          calls < max /\ ClearCall(p, sid)
    \/ \E p \in ps :
          \/ LcHash(p) \/ LcSelect(p)
          \/ PdHash(p) \/ PdSelect(p) \/ PdParse(p)
          \/ AddHash(p) \/ AddSelect(p) \/ AddInsert(p) \/ SavePtr(p)
          \/ CvBuild(p) \/ SvSave(p)
          \/ LdRead(p)
          \/ LdAssign(p) /\ UNCHANGED obs
          \/ SqPtr(p) \/ CqPtr(p)
          \/ QSearch(p) /\ UNCHANGED obs
          \/ \E failed \in raising : Gen(p, failed)
          \/ Return(p)

\* Requests served concurrently.
Next == Program(Procs, MaxCalls, FALSE, BOOLEAN)
Spec == Init /\ [][Next]_vars

\* Requests served one at a time: the upload handler writes its file and
\* then makes its call, so no file is written while a call runs.
SeqNext == Program({1}, MaxSeqCalls, TRUE, {FALSE})
SeqSpec == Init /\ [][SeqNext]_vars

\* The ingestion service on its own: concurrent callers of
\* DocumentService.process_document.
IngestNext ==
    \/ \E path \in Paths, c \in Contents : PutFile(path, c)
    \/ \E p \in Procs, path \in Paths :
          calls < MaxIngestCalls /\ IngestCall(p, path)
    \/ \E p \in Procs :
          \/ PdHash(p) \/ PdSelect(p) \/ PdParse(p)
          \/ AddHash(p) \/ AddSelect(p) \/ AddInsert(p) \/ SavePtr(p)
          \/ Return(p)

IngestSpec == Init /\ [][IngestNext]_vars

\* The document service used by one caller at a time: documents are
\* ingested and added one after the other, files are written between the
\* calls, and the process may be restarted.
TrackNext ==
    \/ \E path \in Paths, c \in Contents :
          proc[1].pc = "idle" /\ PutFile(path, c)
    \/ Restart
    \/ \E path \in Paths : calls < MaxTrackCalls /\ IngestCall(1, path)
    \/ \E path \in Paths : calls < MaxTrackCalls /\ AddCall(1, path)
    \/ PdHash(1) \/ PdSelect(1) \/ PdParse(1)
    \/ AddHash(1) \/ AddSelect(1) \/ AddInsert(1) \/ SavePtr(1)
    \/ Return(1)

TrackSpec == Init /\ [][TrackNext]_vars

\* The index under rebuild: concurrent uploads through QASystem and
\* concurrent callers of VectorStoreService.query.
RebuildNext ==
    \/ \E path \in Paths, c \in Contents : PutFile(path, c)
    \/ Restart
    \/ \E p \in Procs, path \in Paths :
          calls < MaxRebuildCalls /\ LoadOrCreateCall(p, path)
    \/ \E p \in Procs, q \in Texts :
          calls < MaxRebuildCalls /\ QueryCall(p, q) /\ UNCHANGED obs
    \/ \E p \in Procs :
          \/ LcHash(p) \/ LcSelect(p)
          \/ PdHash(p) \/ PdSelect(p) \/ PdParse(p)
          \/ AddHash(p) \/ AddSelect(p) \/ AddInsert(p) \/ SavePtr(p)
          \/ CvBuild(p) \/ SvSave(p)
          \/ LdRead(p)
          \/ LdAssign(p) /\ UNCHANGED obs
          \/ QSearch(p) /\ UNCHANGED obs
          \/ Return(p)

RebuildSpec == Init /\ [][RebuildNext]_vars

\* ------------------------------------------------------- cache observer
\* obs follows one query text, Probe: at is the time its cache entry was
\* last set by a search (-1: never), val the value returned then, others
\* the number of other texts cached since query(Probe) last returned, fill
\* the number of other texts issued so far.
ObserveEntry(q) ==
    obs' = IF q = Probe
           THEN IF CacheContains(query_cache, q, now)
                THEN [obs EXCEPT !.others = 0] ELSE obs
           ELSE [obs EXCEPT !.fill = IF q > @ THEN q ELSE @]

ObserveSearch(p) ==
    obs' = IF proc[p].q = Probe
           THEN [obs EXCEPT !.at = now, !.others = 0,
                            !.val = CacheValue(query_cache', Probe)]
           ELSE [obs EXCEPT !.others = IF obs.at >= 0 THEN @ + 1 ELSE @]

\* The retrieval index on its own, after document "A" was uploaded: one
\* caller of VectorStoreService.query asks Probe, and after its first
\* answer also texts never asked before.
MaxProbes == 2
MaxFill == CacheMaxSize + 1

CacheInit ==
    /\ files = [x \in Paths |-> IF x = "a.pdf" THEN "A" ELSE NoFile]
    /\ puts = 1
    /\ registry = InsertRow(<< >>, "A", "a.pdf")
    /\ lastPdf = "a.pdf"
    /\ vector_store = FaissFromDocuments(Documents(extract_sections_with_metadata("A")))
    /\ disk = SaveLocal(vector_store)
    /\ query_cache = << >>
    /\ now = 0
    /\ restarts = 0
    /\ calls = 0
    /\ proc = [p \in Procs |-> Idle]
    /\ obs = ObsInit
    /\ conversations = NoConversations
    /\ llm_conversations = NoConversations
    /\ appended = NoConversations
    /\ sessions = NoSessions

CacheNext ==
    \/ calls - obs.fill < MaxProbes /\ QueryCall(1, Probe) /\ ObserveEntry(Probe)
    \/ \E q \in {obs.fill + 1} :
          /\ obs.at >= 0
          /\ q <= MaxFill
          /\ QueryCall(1, q) /\ ObserveEntry(q)
    \/ QSearch(1) /\ ObserveSearch(1)
    \/ Return(1)
    \/ Tick(CacheTTL)

CacheSpec == CacheInit /\ [][CacheNext]_vars

\* Conversations: document A has been uploaded and indexed; chat and
\* single-query requests without a file, and clear requests, are served
\* concurrently, on session 1, on new sessions and on the sessions that
\* have a history; the model call may raise.
ChatNext ==
    \/ \E p \in Procs, q \in Texts, sid \in {NoSession, 1} :
          calls < MaxChatCalls /\ ChatCall(p, q, NoPath, sid) /\ UNCHANGED obs
    \/ \E p \in Procs, q \in Texts :
          calls < MaxChatCalls /\ SingleCall(p, q, NoPath) /\ UNCHANGED obs
    \/ \E p \in Procs, sid \in DOMAIN conversations \cup {1} :
          calls < MaxChatCalls /\ ClearCall(p, sid)
    \/ \E p \in Procs :
          \/ QSearch(p) /\ UNCHANGED obs
          \/ \E failed \in BOOLEAN : Gen(p, failed)
          \/ Return(p)
    \/ Tick(CacheTTL)

ChatSpec == CacheInit /\ [][ChatNext]_vars

\* VectorStoreService.is_loaded as a function of the instance's state: the
\* instance holds no index, or an index of up to MaxDocs documents (an
\* index of none is what load_local returns from a directory that holds an
\* empty index), and callers ask whether it is loaded.
MaxDocs == 2

AllChunks ==
    UNION {{extract_sections_with_metadata(c)[i] :
               i \in 1..Len(extract_sections_with_metadata(c))} :
           c \in Contents}

StoreInputs ==
    {NoStore} \cup
    {[present |-> TRUE, docs |-> d] :
        d \in UNION {[1..n -> AllChunks] : n \in 0..MaxDocs}}

IsLoadedCall(p) ==
    /\ proc[p].pc = "idle"
    /\ Set(p, Returned([Idle EXCEPT !.op = "is_loaded"],
                       <<is_loaded(vector_store)>>))
    /\ Local

LoadedInit ==
    /\ files = [x \in Paths |-> NoFile]
    /\ puts = 0
    /\ registry = << >>
    /\ lastPdf = NoPath
    /\ disk = NoDisk
    /\ vector_store \in StoreInputs
    /\ query_cache = << >>
    /\ now = 0
    /\ restarts = 0
    /\ calls = 0
    /\ proc = [p \in Procs |-> Idle]
    /\ obs = ObsInit
    /\ conversations = NoConversations
    /\ llm_conversations = NoConversations
    /\ appended = NoConversations
    /\ sessions = NoSessions

LoadedNext ==
    \/ \E p \in Procs : IsLoadedCall(p)
    \/ \E p \in Procs : Return(p)

LoadedSpec == LoadedInit /\ [][LoadedNext]_vars

\* A ConversationManager used by one caller: messages are appended to two
\* sessions, sessions are cleared and old sessions pruned, while time
\* passes.  The n-th message appended to a session since it was created has
\* content n, from the user when n is odd and from the assistant when even;
\* appended records these (role, content) pairs.
Others ==
    UNCHANGED <<persistent, counters, calls, vector_store, query_cache, obs,
                llm_conversations, sessions>>

AddMessageCall(p, s) ==
    /\ proc[p].pc = "idle"
    /\ Len(get_conversation(appended, s)) < MaxAppends
    /\ LET n == Len(get_conversation(appended, s)) + 1
           role == IF n % 2 = 1 THEN "user" ELSE "assistant"
       IN  /\ conversations' = add_message(conversations, s, role, n, now)
           /\ appended' =
                 [k \in DOMAIN appended \cup {s} |->
                     IF k = s
                     THEN Append(get_conversation(appended, s),
                                 [role |-> role, content |-> n])
                     ELSE appended[k]]
    /\ Set(p, Returned([Idle EXCEPT !.op = "add_message", !.sid = s], << >>))
    /\ Others

ClearConversationCall(p, s) ==
    /\ proc[p].pc = "idle"
    /\ conversations' = clear_conversation(conversations, s)
    /\ appended' = clear_conversation(appended, s)
    /\ Set(p, Returned([Idle EXCEPT !.op = "clear_conversation", !.sid = s,
                                    !.wrote = s \in DOMAIN conversations],
                       << >>))
    /\ Others

PruneCall(p, max_age) ==
    /\ proc[p].pc = "idle"
    /\ conversations' = prune_old_conversations(conversations, now, max_age)
    /\ appended' = [k \in DOMAIN conversations' |-> appended[k]]
    /\ Set(p, Returned([Idle EXCEPT !.op = "prune", !.q = max_age,
                                    !.wrote = conversations' # conversations],
                       << >>))
    /\ Others

ConvNext ==
    \/ \E s \in SessionIds : AddMessageCall(1, s)
    \/ \E s \in SessionIds : ClearConversationCall(1, s)
    \/ \E max_age \in {0, MaxAge} : PruneCall(1, max_age)
    \/ Return(1)
    \/ Tick(MaxAge)

ConvSpec == Init /\ [][ConvNext]_vars

\* ------------------------------------- LLMHandler._evaluate_answer_quality
\* An answer is given by what the function reads from it: the number of
\* its words (answer.split()), the number of keywords that occur in it, its
\* syllables (textstat counts one sentence here), and, when a non-empty
\* context is passed, the number of its words that occur in the context.
\* The empty answer has no words, no keywords and no syllables.
ScoreInputs ==
    {a \in [words : {9 * i : i \in 0..MaxWordSteps},
            keywords : 0..NumKeywords,
            sentences : {1},
            syllables : {0} \cup {9 * i * y : i \in 1..MaxWordSteps,
                                              y \in 1..MaxSyllablesPerWord},
            context : BOOLEAN,
            overlap : {6 * j : j \in 0..MaxOverlapSteps}] :
        /\ a.words = 0 => a.keywords = 0 /\ a.syllables = 0
        /\ a.words > 0 => \E y \in 1..MaxSyllablesPerWord :
                             a.syllables = a.words * y
        /\ a.overlap <= a.words
        /\ ~a.context => a.overlap = 0}

\* Factor 1, line 151: min(len(answer.split()) // 10, 5)
length_score(a) == IF a.words \div 10 < 5 THEN a.words \div 10 ELSE 5

\* Factor 2, lines 155-157: min(number of keywords in the answer, 3)
keyword_score(a) == IF a.keywords < 3 THEN a.keywords ELSE 3

\* textstat.flesch_reading_ease(answer) > bound, for a bound in
\* thousandths: 206.835 - 1.015 * (words / sentences)
\*                       - 84.6 * (syllables / words),
\* where a quotient by zero counts as 0, so that the text without words has
\* the value 206.835
flesch_reading_ease_above(a, bound) ==
    IF a.words = 0 THEN 206835 > bound
    ELSE 206835 * a.sentences * a.words
            - 1015 * a.words * a.words
            - 84600 * a.syllables * a.sentences
         > bound * a.sentences * a.words

\* Factor 3, lines 160-162: two points for a reading ease above 60
readability_points(a) == IF flesch_reading_ease_above(a, 60000) THEN 2 ELSE 0

\* Factor 4, lines 165-172: only if a context is given
relevance_score(a) ==
    IF ~a.context THEN 0
    ELSE IF a.overlap \div 5 < 3 THEN a.overlap \div 5 ELSE 3

\* a variant without the cap of line 175
EvaluateUncapped(a) ==
    length_score(a) + keyword_score(a) + readability_points(a)
        + relevance_score(a)

\* lines 146-175
_evaluate_answer_quality(a) ==
    LET quality_score == length_score(a) + keyword_score(a)
                            + readability_points(a) + relevance_score(a)
    IN  IF quality_score < 10 THEN quality_score ELSE 10

\* A caller evaluates an answer: no suspension point, nothing read or
\* written but the arguments
ScoreCall(p, a) ==
    /\ proc[p].pc = "idle"
    /\ calls' = calls + 1
    /\ Set(p, Returned([Idle EXCEPT !.op = "score", !.args = a],
                       _evaluate_answer_quality(a)))
    /\ UNCHANGED <<chat, persistent, counters, vector_store, query_cache, obs>>

\* Scoring: two callers evaluate answers, with and without a context.
ScoreNext ==
    \/ \E p \in Procs, a \in ScoreInputs :
          calls < MaxScoreCalls /\ ScoreCall(p, a)
    \/ \E p \in Procs : Return(p)

ScoreSpec == CacheInit /\ [][ScoreNext]_vars

\* ------------------------------------ PDFParser.extract_sections_with_metadata
\* The extracted content of a document is a list of units.  A text unit has
\* a header and a content of lines joined by "\n"; a line is given by its
\* length and holds no blank, and only a text of one line may be empty.  A
\* table unit has its headers and its rows; the rows are given by the
\* length of their JSON text.
LineLengths == {100, 600, 1700}
TableLengths == {<< 40 >>, << 1500 >>}
Headers == {1, 2}

TextContents ==
    {<< 0 >>} \cup UNION {[1..n -> LineLengths] : n \in 1..MaxLines}

Units ==
    [type : {"text"}, header : Headers, content : TextContents]
        \cup [type : {"table"}, header : Headers, content : TableLengths]

ExtractedContents == UNION {[1..n -> Units] : n \in 0..MaxUnits}

\* the length of a list of splits joined without separator
RECURSIVE SumLen(_)
SumLen(splits) ==
    IF splits = << >> THEN 0 ELSE Head(splits).len + SumLen(Tail(splits))

\* _join_docs: the joined splits, stripped; a split that begins with the
\* kept "\n" loses it
JoinDocs(current_doc) ==
    SumLen(current_doc) - (IF Head(current_doc).nl THEN 1 ELSE 0)

\* _merge_splits, the inner loop: splits leave the front of the current
\* chunk while it is longer than the overlap, or too long to take the next
\* split
RECURSIVE Shed(_, _)
Shed(current_doc, len) ==
    IF /\ current_doc # << >>
       /\ \/ SumLen(current_doc) > ChunkOverlap
          \/ SumLen(current_doc) + len > ChunkSize /\ SumLen(current_doc) > 0
    THEN Shed(Tail(current_doc), len)
    ELSE current_doc

\* _merge_splits with the kept separators (separator "" between splits):
\* the lengths of the chunks
RECURSIVE MergeSplits(_, _, _)
MergeSplits(splits, current_doc, docs) ==
    IF splits = << >>
    THEN IF current_doc = << >> \/ JoinDocs(current_doc) = 0 THEN docs
         ELSE Append(docs, JoinDocs(current_doc))
    ELSE LET d == Head(splits)
         IN  IF SumLen(current_doc) + d.len > ChunkSize /\ current_doc # << >>
             THEN MergeSplits(Tail(splits),
                              Append(Shed(current_doc, d.len), d),
                              IF JoinDocs(current_doc) = 0 THEN docs
                              ELSE Append(docs, JoinDocs(current_doc)))
             ELSE MergeSplits(Tail(splits), Append(current_doc, d), docs)

\* _merge_splits of n single characters: a full chunk, then chunks that
\* begin with the last ChunkOverlap characters of the one before
RECURSIVE CharChunks(_)
CharChunks(n) ==
    IF n = 0 THEN << >>
    ELSE IF n <= ChunkSize THEN << n >>
    ELSE << ChunkSize >> \o CharChunks(n - (ChunkSize - ChunkOverlap))

\* _split_text on a split that is not shorter than the chunk size: it has
\* no blank, so it is split into characters; the first chunk is stripped
SplitLong(d) ==
    LET c == CharChunks(d.len)
    IN  IF d.nl THEN << c[1] - 1 >> \o Tail(c) ELSE c

\* _split_text, the loop over the splits: shorter splits are collected and
\* merged, a longer one is split further
RECURSIVE SplitLoop(_, _, _)
SplitLoop(splits, good_splits, final_chunks) ==
    IF splits = << >>
    THEN final_chunks \o MergeSplits(good_splits, << >>, << >>)
    ELSE IF Head(splits).len < ChunkSize
    THEN SplitLoop(Tail(splits), Append(good_splits, Head(splits)),
                   final_chunks)
    ELSE SplitLoop(Tail(splits), << >>,
                   final_chunks \o MergeSplits(good_splits, << >>, << >>)
                                \o SplitLong(Head(splits)))

\* a split_text that returns the text as it is
SplitTextWhole(lines) ==
    << SumLen([i \in 1..Len(lines) |-> [len |-> lines[i]]])
          + Len(lines) - 1 >>

\* RecursiveCharacterTextSplitter.split_text: the lengths of the chunks of
\* a text.  A text of several lines is split at "\n", each separator kept
\* at the front of the split it precedes; a text of one line has none of
\* the separators and is split into characters.
split_text(lines) ==
    IF Len(lines) = 1 THEN CharChunks(lines[1])
    ELSE SplitLoop([i \in 1..Len(lines) |->
                       [len |-> lines[i] + (IF i > 1 THEN 1 ELSE 0),
                        nl |-> i > 1]],
                   << >>, << >>)

\* MetadataTextSplitter.split_text_with_metadata
split_text_with_metadata(text, metadata) ==
    LET split_texts == split_text(text)
    IN  [i \in 1..Len(split_texts) |->
            [content |-> [of |-> "text", len |-> split_texts[i]],
             metadata |-> metadata]]

\* extract_sections_with_metadata lines 100-121, on the extracted content:
\* the chunks of every unit, in the order of the units
RECURSIVE SectionsWithMetadata(_)
SectionsWithMetadata(content) ==
    IF content = << >> THEN << >>
    ELSE LET item == Head(content)
         IN  (IF item.type = "text"
              THEN split_text_with_metadata(
                      item.content,
                      [type |-> "text", header |-> item.header])
              ELSE << [content |-> [of |-> "json", len |-> item.content[1]],
                       metadata |-> [type |-> "table",
                                     header |-> item.header]] >>)
             \o SectionsWithMetadata(Tail(content))

\* A caller has the sections of an extracted content made.
ChunkCall(p, content) ==
    /\ proc[p].pc = "idle"
    /\ calls' = calls + 1
    /\ Set(p, Returned([Idle EXCEPT !.op = "chunk", !.args = content],
                       SectionsWithMetadata(content)))
    /\ UNCHANGED <<chat, persistent, counters, vector_store, query_cache, obs>>

\* Chunking: the sections of documents of up to MaxUnits units.
ChunkNext ==
    \/ \E content \in ExtractedContents :
          calls < MaxChunkCalls /\ ChunkCall(1, content)
    \/ Return(1)

ChunkSpec == CacheInit /\ [][ChunkNext]_vars

\* The two query modes side by side: documents are uploaded one at a time;
\* then a single query is started and, while it is being served, a chat
\* request with the same file argument.  Nothing but the two requests runs
\* from the start of the first to the end of the second.
EnsureNext ==
    \/ \E path \in Paths, c \in Contents : Quiet /\ PutFile(path, c)
    \/ Restart
    \/ \E path \in Paths :
          /\ calls < MaxEnsureCalls /\ proc[2].pc = "idle"
          /\ LoadOrCreateCall(1, path)
    \/ \E q \in Texts, pdf \in {NoPath, "a.pdf"} :
          /\ calls < MaxEnsureCalls /\ proc[2].pc = "idle"
          /\ SingleCall(1, q, pdf) /\ UNCHANGED obs
    \/ \E q \in Texts :
          /\ calls < MaxEnsureCalls /\ proc[1].op = "single"
          /\ ChatCall(2, q, proc[1].path, NoSession) /\ UNCHANGED obs
    \/ \E p \in Procs :
          \/ LcHash(p) \/ LcSelect(p)
          \/ PdHash(p) \/ PdSelect(p) \/ PdParse(p)
          \/ AddHash(p) \/ AddSelect(p) \/ AddInsert(p) \/ SavePtr(p)
          \/ CvBuild(p) \/ SvSave(p)
          \/ LdRead(p)
          \/ LdAssign(p) /\ UNCHANGED obs
          \/ SqPtr(p) \/ CqPtr(p)
          \/ QSearch(p) /\ UNCHANGED obs
          \/ Gen(p, FALSE)
    \/ Return(2)
    \/ proc[2].pc = "idle" /\ Return(1)

EnsureSpec == Init /\ [][EnsureNext]_vars

\* ------------------------------------------------------- SessionManager
\* timedelta(minutes=session_timeout), in seconds
session_timeout == SessionTimeoutMinutes * 60

\* Session.__init__ at clock t
Session(t) == [created_at |-> t, last_accessed |-> t]

\* create_session: the new Session is stored under its id
create_session(ss, id, t) ==
    [k \in DOMAIN ss \cup {id} |-> IF k = id THEN Session(t) ELSE ss[k]]

\* get_session: a known session has its last access set to the clock
get_session(ss, s, t) ==
    IF s \in DOMAIN ss THEN [ss EXCEPT ![s].last_accessed = t] ELSE ss

\* delete_session
delete_session(ss, s) == [k \in DOMAIN ss \ {s} |-> ss[k]]

\* is_valid_session lines 46-52: the session is fetched through
\* get_session, which updates its last access, and the age is taken from
\* the updated record.  The two readings of the clock are microseconds
\* apart and are the same instant here.
IsValid(ss, s, t) ==
    LET got == get_session(ss, s, t)
    IN  IF s \notin DOMAIN got THEN [valid |-> FALSE, sessions |-> got]
        ELSE IF t - got[s].last_accessed > session_timeout
        THEN [valid |-> FALSE, sessions |-> delete_session(got, s)]
        ELSE [valid |-> TRUE, sessions |-> got]

SessionLocal ==
    UNCHANGED <<conversations, llm_conversations, appended, persistent,
                counters, vector_store, query_cache, obs>>

\* the ids callers present: those of the sessions and one that is unknown
PresentedIds == DOMAIN sessions \cup {1}

CreateSessionCall(p) ==
    /\ proc[p].pc = "idle"
    /\ calls' = calls + 1
    /\ LET id == 100 + calls'
       IN  /\ sessions' = create_session(sessions, id, now)
           /\ Set(p, Returned([Idle EXCEPT !.op = "create_session",
                                           !.uuid = id], << id >>))
    /\ SessionLocal

GetSessionCall(p, s) ==
    /\ proc[p].pc = "idle"
    /\ calls' = calls + 1
    /\ sessions' = get_session(sessions, s, now)
    /\ Set(p, Returned([Idle EXCEPT !.op = "get_session", !.sid = s],
                       IF s \in DOMAIN sessions THEN << sessions'[s] >>
                       ELSE << >>))
    /\ SessionLocal

IsValidSessionCall(p, s) ==
    /\ proc[p].pc = "idle"
    /\ calls' = calls + 1
    /\ LET r == IsValid(sessions, s, now)
       IN  /\ sessions' = r.sessions
           /\ Set(p, Returned([Idle EXCEPT !.op = "is_valid_session",
                                           !.sid = s], << r.valid >>))
    /\ SessionLocal

DeleteSessionCall(p, s) ==
    /\ proc[p].pc = "idle"
    /\ calls' = calls + 1
    /\ sessions' = delete_session(sessions, s)
    /\ Set(p, Returned([Idle EXCEPT !.op = "delete_session", !.sid = s],
                       << >>))
    /\ SessionLocal

\* get_or_create_session_id lines 63-67: a valid presented id is returned,
\* otherwise a session is created and its id returned
GetOrCreateCall(p, x) ==
    /\ proc[p].pc = "idle"
    /\ calls' = calls + 1
    /\ LET r == IsValid(sessions, x, now)
           id == 100 + calls'
           rec == [Idle EXCEPT !.op = "get_or_create_session_id",
                               !.sid = x, !.uuid = id]
       IN  IF x # NoSession /\ r.valid
           THEN /\ sessions' = r.sessions
                /\ Set(p, Returned(rec, << x >>))
           ELSE /\ sessions' =
                      create_session(IF x # NoSession THEN r.sessions
                                     ELSE sessions, id, now)
                /\ Set(p, Returned(rec, << id >>))
    /\ SessionLocal

\* The session manager used by one caller; time passes between the calls.
SessionNext ==
    \/ calls < MaxSessionCalls /\ CreateSessionCall(1)
    \/ \E s \in PresentedIds :
          calls < MaxSessionCalls /\ GetSessionCall(1, s)
    \/ \E s \in PresentedIds :
          calls < MaxSessionCalls /\ IsValidSessionCall(1, s)
    \/ \E s \in PresentedIds :
          calls < MaxSessionCalls /\ DeleteSessionCall(1, s)
    \/ \E x \in PresentedIds \cup {NoSession} :
          calls < MaxSessionCalls /\ GetOrCreateCall(1, x)
    \/ Return(1)
    \/ Tick(session_timeout)

SessionSpec == Init /\ [][SessionNext]_vars


\* ------------------------------- VectorStoreService: direct load and save
\* A caller invokes load_vector_store(path) directly (lines 89-107).
LoadCall(p) ==
    /\ proc[p].pc = "idle"
    /\ calls' = calls + 1
    /\ Set(p, LoadEntry([Idle EXCEPT !.op = "load"]))
    /\ UNCHANGED <<chat, persistent, counters, vector_store, query_cache, obs>>

\* A caller invokes save_vector_store(path) directly (lines 81-87): without
\* an index the call raises before the directory is made.
SaveCall(p) ==
    /\ proc[p].pc = "idle"
    /\ calls' = calls + 1
    /\ LET rec == [Idle EXCEPT !.op = "save"]
       IN  Set(p, IF ~vector_store.present THEN Raised(rec, "NotCreated")
                  ELSE [rec EXCEPT !.pc = "sv_save", !.tmp = vector_store])
    /\ UNCHANGED <<chat, persistent, counters, vector_store, query_cache, obs>>

\* One of the two files of the index directory is absent: it was removed,
\* or a save_local was cut short between writing index.faiss and index.pkl.
RemoveArtifact(f) ==
    /\ disk' = IF f = "faiss" THEN [disk EXCEPT !.faiss = FALSE]
               ELSE [disk EXCEPT !.pkl = FALSE]
    /\ disk' # disk
    /\ UNCHANGED <<chat, files, registry, lastPdf, counters, calls,
                   vector_store, query_cache, proc, obs>>

\* The index service used by one caller at a time: uploads build and save
\* indexes, the index is loaded and saved directly, files are written and
\* removed between the calls.
PersistNext ==
    \/ \E path \in Paths, c \in Contents : Quiet /\ PutFile(path, c)
    \/ \E f \in {"faiss", "pkl"} : Quiet /\ RemoveArtifact(f)
    \/ Restart
    \/ \E path \in Paths :
          calls < MaxPersistCalls /\ LoadOrCreateCall(1, path)
    \/ calls < MaxPersistCalls /\ LoadCall(1)
    \/ calls < MaxPersistCalls /\ SaveCall(1)
    \/ LcHash(1) \/ LcSelect(1)
    \/ PdHash(1) \/ PdSelect(1) \/ PdParse(1)
    \/ AddHash(1) \/ AddSelect(1) \/ AddInsert(1) \/ SavePtr(1)
    \/ CvBuild(1) \/ SvSave(1)
    \/ LdRead(1)
    \/ LdAssign(1) /\ UNCHANGED obs
    \/ Return(1)

PersistSpec == Init /\ [][PersistNext]_vars


\* ================================================================ claims
\* the chunk contents of the document with the given hash, as indexed
IndexedContents(hash) ==
    LET d == Documents(extract_sections_with_metadata(hash))
    IN  {d[i].content : i \in 1..Len(d)}

DiskContents == {disk.docs[i].content : i \in 1..Len(disk.docs)}

\* C1 (as stated; requests one at a time, observed between requests): for
\* every document in the registry the persisted index is loadable and holds
\* that document's chunks, and a persisted index holds the chunks of a
\* document that is in the registry.
C1_RegistryMatchesIndex ==
    Quiet =>
      /\ \A i \in 1..Len(registry) :
            /\ vector_store_exists(disk)
            /\ IndexedContents(registry[i].file_hash) \subseteq DiskContents
      /\ vector_store_exists(disk) =>
            \E i \in 1..Len(registry) :
               DiskContents = IndexedContents(registry[i].file_hash)

\* C2: a process_document call whose content hash is in the registry when
\* it looks it up returns an empty chunk sequence without raising, leaves
\* the registry as it is, and the registry holds exactly one record of
\* that hash.
C2_IdempotentIngest ==
    [][\A p \in Procs :
         (/\ proc[p].op = "ingest"
          /\ proc[p].pc = "pd_select"
          /\ proc'[p] # proc[p]
          /\ \E i \in 1..Len(registry) : registry[i].file_hash = proc[p].hash)
         => /\ proc'[p].pc = "done"
            /\ proc'[p].out = "ok"
            /\ proc'[p].ret = << >>
            /\ registry' = registry
            /\ Cardinality({i \in 1..Len(registry') :
                              registry'[i].file_hash = proc[p].hash}) = 1]_vars

\* a second ingest of the bytes of a.pdf, under the path b.pdf, has returned
\* no chunks and one record is in the registry
C2_Witness ==
    \E p \in Procs :
       /\ proc[p].op = "ingest" /\ proc[p].pc = "done" /\ proc[p].out = "ok"
       /\ proc[p].path = "b.pdf" /\ proc[p].ret = << >> /\ ~proc[p].wrote
       /\ files["b.pdf"] = "A"
       /\ Len(registry) = 1
       /\ registry[1].file_hash = "A" /\ registry[1].file_path = "a.pdf"

\* C3: in every reachable state the registry holds at most one record per
\* content hash.
C3_OneRecordPerHash ==
    \A i, j \in 1..Len(registry) :
       registry[i].file_hash = registry[j].file_hash => i = j

\* two concurrent ingestions of the same bytes both tried to insert, and the
\* second insert was rejected
C3_Witness ==
    \E p \in Procs :
       /\ proc[p].out = "IntegrityError"
       /\ Len(registry) = 1
       /\ files[proc[p].path] = registry[1].file_hash

\* C4 (as stated): no caller of the ingestion receives a uniqueness
\* violation from add_document, and no two callers are about to insert the
\* same content hash.
C4_AddIfAbsentAtomic ==
    /\ \A p \in Procs : proc[p].out # "IntegrityError"
    /\ \A p, r \in Procs :
          (/\ proc[p].pc = "add_insert" /\ proc[r].pc = "add_insert"
           /\ proc[p].hash = proc[r].hash) => p = r

\* the errors of a failed parse+split or of a call that never got there
IngestFailures == {"PdfNotFound", "NotAPdf", "ParseError"}

\* C5: the registry and the last-ingested pointer change only in a step of
\* a call that has parsed its file and is in add_document or _save_last_pdf;
\* a call that ends with a missing file, a wrong file type or a parser error
\* has written neither, and neither changes in the step it fails in.
C5_NoPartialRegistration ==
    [][/\ (registry' # registry \/ lastPdf' # lastPdf) =>
            \E p \in Procs :
               /\ proc[p].pc \in {"add_insert", "save_ptr"}
               /\ proc'[p] # proc[p]
               /\ proc'[p].wrote
       /\ \A p \in Procs :
            (/\ proc[p].pc # "done" /\ proc'[p].pc = "done"
             /\ proc'[p].out \in IngestFailures)
            => /\ ~proc'[p].wrote
               /\ registry' = registry
               /\ lastPdf' = lastPdf]_vars

\* a call on a corrupt file has failed in the parser, after another document
\* was registered, and the registry and the pointer hold that other document
C5_Witness ==
    \E p \in Procs :
       /\ proc[p].op = "ingest" /\ proc[p].pc = "done"
       /\ proc[p].out = "ParseError" /\ ~proc[p].wrote
       /\ files[proc[p].path] = "X"
       /\ Len(registry) = 1 /\ registry[1].file_hash # "X"
       /\ lastPdf # NoPath /\ lastPdf # proc[p].path

\* the index of the chunks of the document with the given hash
IndexOf(hash) ==
    [present |-> TRUE, docs |-> Documents(extract_sections_with_metadata(hash))]

\* C6 (as stated; requests one at a time): when load_or_create_vector_store
\* completes successfully for a file, the in-memory index is loaded and is
\* the index of that file's chunks, and the same index is persisted.
C6_IndexIsOfSuppliedFile ==
    [][\A p \in Procs :
         (/\ proc[p].op = "upload"
          /\ proc[p].pc # "done" /\ proc'[p].pc = "done"
          /\ proc'[p].out = "ok")
         => /\ is_loaded(vector_store')
            /\ vector_store' = IndexOf(proc[p].hash)
            /\ vector_store_exists(disk')
            /\ disk'.docs = vector_store'.docs]_vars

\* C7 (as stated; requests one at a time): the results a query hands to the
\* generator are those of a search of the index that is in memory now.
C7_QuerySeesCurrentIndex ==
    \A p \in Procs :
       proc[p].pc = "gen" =>
          proc[p].ret = Processed(similarity_search(vector_store, proc[p].q))

\* the complete indexes: every chunk of one document that has chunks
CompleteIndexes == {IndexOf(c) : c \in {"A", "B"}}

\* C8: under concurrent uploads and queries the in-memory index is absent
\* or complete in every state, and the index a query searches is a
\* complete one.
C8_NoHalfBuiltIndex ==
    /\ vector_store = NoStore \/ vector_store \in CompleteIndexes
    /\ \A p \in Procs :
          proc[p].pc = "q_search" => proc[p].tmp \in CompleteIndexes

\* a query searches the previous index while an upload has replaced it and
\* is still saving the new one
C8_Witness ==
    \E p, r \in Procs :
       /\ proc[p].pc = "q_search"
       /\ proc[r].op = "upload" /\ proc[r].pc = "sv_save"
       /\ proc[p].tmp \in CompleteIndexes
       /\ vector_store \in CompleteIndexes
       /\ proc[p].tmp # vector_store

\* query(Probe) is called in this step
ProbeCalled ==
    proc[1].pc = "idle" /\ proc'[1].pc # "idle" /\ proc'[1].q = Probe

\* query(Probe) is answered in this step from the cache, without a search
ProbeHit ==
    /\ proc'[1].pc = "done" /\ proc'[1].out = "ok"
    /\ proc'[1].ret = obs.val /\ ~proc'[1].searched

Pristine ==
    /\ registry = << >> /\ lastPdf = NoPath
    /\ disk = NoDisk /\ vector_store = NoStore

\* C10 (as stated): a single-query or chat request without a file, ended in
\* the pristine state, has failed with the no-index error as the
\* orchestrator raised it, has not called the generator and has no answer.
C10_PristineQueryFailsNoIndex ==
    \A p \in Procs :
       (/\ proc[p].pc = "done" /\ proc[p].op \in {"single", "chat"}
        /\ proc[p].path = NoPath /\ Pristine)
       => /\ proc[p].out \in NoIndexAvailable
          /\ proc[p].wraps = 0
          /\ ~proc[p].gen
          /\ proc[p].ret = << >>

\* C11: a call of VectorStoreService.query made while the instance holds
\* no index (nothing built or loaded) fails at once with the not-created
\* error, for every text; it finds no cached result.
C11_EmptyIndexNotBuilt ==
    [][\A p \in Procs :
         (/\ proc[p].pc = "idle" /\ proc'[p].op = "query"
          /\ vector_store = NoStore)
         => /\ proc'[p].pc = "done"
            /\ proc'[p].out = "NotCreated"
            /\ proc'[p].ret = << >>
            /\ query_cache = << >>]_vars

\* after a restart that found no persisted index, with a document in the
\* registry, a query has failed with the not-created error
C11_Witness ==
    \E p \in Procs :
       /\ proc[p].op = "query" /\ proc[p].pc = "done"
       /\ proc[p].out = "NotCreated"
       /\ vector_store = NoStore /\ restarts = 1 /\ registry # << >>

\* C12: create_vector_store called with chunks that yield no document fails
\* with the no-valid-documents error and leaves the index in memory as it
\* was; the instance never holds, and never starts to build, an index of
\* zero records.
C12_NoIndexFromNothing ==
    /\ [](vector_store.present => Len(vector_store.docs) > 0)
    /\ [](\A p \in Procs :
            proc[p].pc = "cv_build" => Documents(proc[p].secs) # << >>)
    /\ [][\A p \in Procs :
            (/\ proc'[p].out = "NoValidDocuments"
             /\ proc[p].out # "NoValidDocuments")
            => /\ proc'[p].pc = "done"
               /\ vector_store' = vector_store]_vars

\* a build from a document without chunks has failed while the instance
\* holds the index of an earlier document
C12_Witness ==
    \E p \in Procs :
       /\ proc[p].pc = "done" /\ proc[p].out = "NoValidDocuments"
       /\ vector_store = IndexOf("A")

C15_AtMostThreeTextOrTable ==
    \A p \in Procs :
       (proc[p].op = "query" /\ proc[p].pc = "done" /\ proc[p].out = "ok")
       => /\ Len(proc[p].ret) <= 3
          /\ \A i \in 1..Len(proc[p].ret) :
                proc[p].ret[i].type \in {"text", "table"}

\* a query on the index of a document of four chunks has returned three
\* records, a table among them
C15_Witness ==
    \E p \in Procs :
       /\ proc[p].op = "query" /\ proc[p].pc = "done" /\ proc[p].out = "ok"
       /\ proc[p].searched
       /\ Len(vector_store.docs) = 4
       /\ Len(proc[p].ret) = 3
       /\ \E i \in 1..3 : proc[p].ret[i].type = "table"

\* C14: is_loaded answers true exactly when the instance holds an index
\* with at least one entry; it answers false when the instance holds no
\* index and when the index it holds has no entry, and it always answers.
C14_LoadedIffNonEmptyIndex ==
    \A p \in Procs :
       (proc[p].op = "is_loaded" /\ proc[p].pc = "done")
       => /\ proc[p].out = "ok"
          /\ proc[p].ret =
                << vector_store # NoStore /\ vector_store.docs # << >> >>

\* is_loaded has answered false on an index without entries
C14_Witness ==
    /\ vector_store = [present |-> TRUE, docs |-> << >>]
    /\ \E p \in Procs : /\ proc[p].op = "is_loaded" /\ proc[p].pc = "done"
                        /\ proc[p].ret = <<FALSE>>

\* C19 (as stated): clear_conversation on a well-formed session id always
\* succeeds, also for a session without history, at the orchestrator as at
\* the ConversationManager; afterwards the session has no history.
C19_ClearIsTotal ==
    /\ \A p \in Procs :
          (proc[p].op = "clear" /\ proc[p].pc = "done" /\ IsUuid(proc[p].sid))
          => proc[p].out = "ok"
    /\ \A s \in SessionIds :
          get_conversation(clear_conversation(conversations, s), s) = << >>

\* C20 (as stated): a chat request with a session id that is not a UUID
\* ends with the invalid-session error as the orchestrator raised it.
C20_InvalidSessionRefused ==
    \A p \in Procs :
       (/\ proc[p].op = "chat" /\ proc[p].pc = "done"
        /\ proc[p].sid = BadSession)
       => /\ proc[p].out = "InvalidSession"
          /\ proc[p].wraps = 0

\* a step of a chat request with a session id that is not a UUID writes to
\* no history, and the request never reaches the generator
C20_NoHistoryOnInvalidSession ==
    /\ [][\A p \in Procs :
            (proc'[p].op = "chat" /\ proc'[p].sid = BadSession
             /\ proc'[p] # proc[p])
            => UNCHANGED <<conversations, llm_conversations>>]_vars
    /\ [](\A p \in Procs :
            (proc[p].op = "chat" /\ proc[p].sid = BadSession) => ~proc[p].gen)

\* the last m elements of a sequence
LastOf(a, m) == SubSeq(a, Len(a) - m + 1, Len(a))

Min(a, b) == IF a < b THEN a ELSE b

\* C16: after any sequence of add_message, clear_conversation and
\* prune_old_conversations calls, no session holds more than max_history
\* messages.
C16_HistoryBounded ==
    \A s \in DOMAIN conversations : Len(conversations[s]) <= MaxHistory

\* a session to which more than max_history messages were appended holds
\* max_history of them
C16_Witness ==
    \E s \in DOMAIN conversations :
       /\ Len(appended[s]) > MaxHistory
       /\ Len(conversations[s]) = MaxHistory

\* C17: after n messages were appended to a session, its history is the
\* last min(n, max_history) of them, as (role, content) pairs in the order
\* they were appended; appending to a full session drops its oldest message
\* and no other.
C17_RingBuffer ==
    /\ [](\A s \in DOMAIN conversations :
            get_conversation_history(conversations, s)
               = LastOf(appended[s], Min(Len(appended[s]), MaxHistory)))
    /\ [][\A p \in Procs, s \in DOMAIN conversations :
            (/\ proc[p].pc = "idle" /\ proc'[p].op = "add_message"
             /\ proc'[p].sid = s /\ Len(conversations[s]) = MaxHistory)
            => /\ Len(conversations'[s]) = MaxHistory
               /\ \A i \in 1..(MaxHistory - 1) :
                     conversations'[s][i] = conversations[s][i + 1]]_vars

\* twelve messages were appended to a session: it holds the third to the
\* twelfth
C17_Witness ==
    \E s \in DOMAIN conversations :
       /\ Len(appended[s]) = 12
       /\ conversations[s][1].content = 3
       /\ conversations[s][MaxHistory].content = 12

\* C18: prune_old_conversations(max_age) removes a session exactly when its
\* oldest message is older than max_age; every other session keeps its
\* messages unchanged, and no session is added.
C18_PruneWholeOldSessions ==
    [][\A p \in Procs :
         (proc[p].pc = "idle" /\ proc'[p].op = "prune")
         => /\ DOMAIN conversations' \subseteq DOMAIN conversations
            /\ \A s \in DOMAIN conversations :
                  IF now - conversations[s][1].timestamp > proc'[p].q
                  THEN s \notin DOMAIN conversations'
                  ELSE /\ s \in DOMAIN conversations'
                       /\ conversations'[s] = conversations[s]]_vars

\* a prune has removed a session and has kept another whose newest message
\* is as recent as the removed session's could be
C18_Witness ==
    /\ proc[1].op = "prune" /\ proc[1].pc = "done" /\ proc[1].wrote
    /\ \E s \in DOMAIN conversations :
          /\ Len(conversations[s]) >= 2
          /\ now - conversations[s][1].timestamp <= proc[1].q

\* C21: the step that completes a chat request appends to the request's
\* session in the orchestrator's store the question as a user message and
\* then the returned answer as an assistant message, changes no other
\* session, and returns the session's history as it is after the two
\* appends; no other step of a chat request changes the store.
C21_RecordHistory ==
    [][\A p \in Procs :
         /\ (/\ proc[p].op = "chat" /\ proc[p].pc = "gen"
             /\ proc'[p].pc = "done" /\ proc'[p].out = "ok")
            => LET s == proc[p].sid
                   all == get_conversation(conversations, s) \o
                          << [role |-> "user", content |-> proc[p].q,
                              timestamp |-> now],
                             [role |-> "assistant",
                              content |-> proc'[p].answer,
                              timestamp |-> now] >>
               IN  /\ proc'[p].answer # NoText
                   /\ DOMAIN conversations' = DOMAIN conversations \cup {s}
                   /\ conversations'[s] =
                         LastOf(all, Min(Len(all), MaxHistory))
                   /\ \A k \in DOMAIN conversations \ {s} :
                         conversations'[k] = conversations[k]
                   /\ proc'[p].hist =
                         [i \in 1..Len(conversations'[s]) |->
                             [role |-> conversations'[s][i].role,
                              content |-> conversations'[s][i].content]]
         /\ (/\ proc'[p] # proc[p] /\ proc'[p].op = "chat"
             /\ proc[p].pc # "gen")
            => conversations' = conversations]_vars

\* a second chat request on a session has returned the four messages of
\* the session, its own question and answer last
C21_Witness ==
    \E p \in Procs :
       /\ proc[p].op = "chat" /\ proc[p].pc = "done" /\ proc[p].out = "ok"
       /\ Len(proc[p].hist) = 4
       /\ proc[p].hist[3] = [role |-> "user", content |-> proc[p].q]
       /\ proc[p].hist[4] = [role |-> "assistant", content |-> proc[p].answer]

\* C22 (as stated): a chat request without a session id that succeeds
\* returns a history of one entry.
C22_OneEntryHistory ==
    \A p \in Procs :
       (/\ proc[p].op = "chat" /\ proc[p].pc = "done" /\ proc[p].out = "ok"
        /\ proc[p].sid = proc[p].uuid)
       => Len(proc[p].hist) = 1

\* C22 (amended): a chat request without a session id that succeeds returns
\* a new UUID, one without a history in the store, and a history of two
\* entries, the question and the answer; a clear of a session that has a
\* history succeeds and leaves the session without history.
C22_NewSessionTwoEntries ==
    [][\A p \in Procs :
         /\ (/\ proc[p].op = "chat" /\ proc[p].pc = "gen"
             /\ proc[p].sid = proc[p].uuid
             /\ proc'[p].pc = "done" /\ proc'[p].out = "ok")
            => /\ IsUuid(proc'[p].sid)
               /\ proc'[p].sid \notin DOMAIN conversations
               /\ proc'[p].hist =
                     << [role |-> "user", content |-> proc[p].q],
                        [role |-> "assistant", content |-> proc'[p].answer] >>
         /\ (/\ proc[p].pc = "idle" /\ proc'[p].op = "clear"
             /\ proc'[p].sid \in DOMAIN conversations)
            => /\ proc'[p].out = "ok"
               /\ proc'[p].sid \notin DOMAIN conversations'
               /\ get_conversation_history(conversations', proc'[p].sid)
                     = << >>]_vars

\* the session a chat request generated has been cleared
C22_Witness ==
    \E p \in Procs :
       /\ proc[p].op = "clear" /\ proc[p].pc = "done" /\ proc[p].out = "ok"
       /\ proc[p].sid > 100
       /\ proc[p].sid \notin DOMAIN conversations

\* C23 (as stated): no step of a single-query request changes a
\* conversation store, and the prompt of a single-query request holds no
\* conversation history.
C23_SingleQueryKeepsNoHistory ==
    /\ [][\A p \in Procs :
            (proc'[p] # proc[p] /\ proc'[p].op = "single")
            => UNCHANGED <<conversations, llm_conversations>>]_vars
    /\ [](\A p \in Procs :
            (proc[p].op = "single" /\ proc[p].prompt # << >>)
            => proc[p].prompt[2] = << >>)

\* C24 (as stated): a single-query or chat request during which the model
\* call raised ends with the generation-failed error as raised, and
\* returns no answer.
C24_GenerationFailureReported ==
    \A p \in Procs :
       (/\ proc[p].op \in {"single", "chat"} /\ proc[p].pc = "done"
        /\ proc[p].failed)
       => /\ proc[p].out = "GenerationFailed"
          /\ proc[p].wraps = 0
          /\ proc[p].answer = NoText

C26_IngestErrorKinds ==
    \A p \in Procs :
       (proc[p].pc = "done" /\ proc[p].op \in {"ingest", "upload"})
       => /\ ~PathExists(proc[p].path)
             => /\ proc[p].out = "PdfNotFound"
                /\ proc[p].wraps = 0
                /\ ~proc[p].wrote
          /\ (PathExists(proc[p].path) /\ ~EndsWithPdf(proc[p].path))
             => /\ proc[p].out = "NotAPdf"
                /\ proc[p].wraps = 0
                /\ ~proc[p].wrote

\* a history made of exchanges: each question directly followed by its answer
Paired(d) ==
    /\ Len(d) % 2 = 0
    /\ \A i \in 1..Len(d) :
          i % 2 = 1
          => /\ d[i].role = "user"
             /\ d[i + 1].role = "assistant"
             /\ d[i + 1].content \in {Answer(d[i].content), ErrorText}

\* the chat requests that complete on session s in this step
Completing(s) ==
    {p \in Procs : /\ proc[p].op = "chat" /\ proc[p].pc = "gen"
                   /\ proc[p].sid = s /\ proc'[p].pc = "done"}

\* C27: with chat requests running concurrently, every session's history is
\* at all times a sequence of exchanges, each question directly before its
\* own answer; a step that changes the history of a session is the
\* completion of exactly one chat request on that session and appends that
\* request's question and answer, once, behind everything that was there
\* (the oldest messages leave when the bound is exceeded): no entry of
\* another request is lost, moved or duplicated.
C27_ValidInterleaving ==
    /\ [](\A s \in DOMAIN conversations : Paired(conversations[s]))
    /\ [][\A s \in DOMAIN conversations \cap DOMAIN conversations' :
            conversations'[s] # conversations[s]
            => \E p \in Completing(s) :
                  /\ Completing(s) = {p}
                  /\ LET all == conversations[s] \o
                                << [role |-> "user", content |-> proc[p].q,
                                    timestamp |-> now],
                                   [role |-> "assistant",
                                    content |-> proc'[p].answer,
                                    timestamp |-> now] >>
                     IN  conversations'[s] =
                            LastOf(all, Min(Len(all), MaxHistory))]_vars

\* two chat requests on session 1 ran concurrently (each built its prompt
\* before the other completed) and the session holds both exchanges
C27_Witness ==
    /\ calls = 2
    /\ \A p \in Procs :
          /\ proc[p].op = "chat" /\ proc[p].pc = "done" /\ proc[p].out = "ok"
          /\ proc[p].sid = 1
          /\ proc[p].prompt[2] = << >>
    /\ proc[1].q # proc[2].q
    /\ 1 \in DOMAIN conversations
    /\ Len(conversations[1]) = 4
    /\ \E p \in Procs :
          /\ conversations[1][1].content = proc[p].q
          /\ conversations[1][2].content = proc[p].answer
          /\ conversations[1][3].content = proc[3 - p].q
          /\ conversations[1][4].content = proc[3 - p].answer

\* the registry and the persisted index agree: neither holds anything, or
\* the index files exist and hold the chunks of a registered document
RegistryAgreesWithIndex ==
    \/ registry = << >> /\ ~vector_store_exists(disk)
    \/ /\ vector_store_exists(disk)
       /\ \E i \in 1..Len(registry) :
             IndexedContents(registry[i].file_hash) = DiskContents

\* C28 (as stated; requests one at a time): the start-up after a restart
\* completes without an error only when the registry and the persisted
\* index agree, and the index is then loaded only if its files and a
\* matching registry entry are present.
C28_RestartSurfacesDisagreement ==
    [][restarts' # restarts
       => /\ RegistryAgreesWithIndex
          /\ is_loaded(vector_store')
             => vector_store_exists(disk) /\ registry # << >>]_vars

\* C29: every evaluation returns an integer from 0 to 10, the sum of the
\* four factors (length at most 5, keywords at most 3, readability 0 or 2,
\* context overlap at most 3) capped at 10; the call changes nothing but
\* the caller's own slot; and two evaluations of the same arguments have
\* returned the same value.
C29_ScoreBoundedAndPure ==
    /\ [](\A p \in Procs :
            (proc[p].op = "score" /\ proc[p].pc = "done")
            => LET a == proc[p].args
                   total == length_score(a) + keyword_score(a)
                               + readability_points(a) + relevance_score(a)
               IN  /\ proc[p].out = "ok"
                   /\ proc[p].ret \in 0..10
                   /\ length_score(a) \in 0..5
                   /\ keyword_score(a) \in 0..3
                   /\ readability_points(a) \in {0, 2}
                   /\ relevance_score(a) \in 0..3
                   /\ proc[p].ret = Min(total, 10))
    /\ [](\A p1, p2 \in Procs :
            (/\ proc[p1].op = "score" /\ proc[p1].pc = "done"
             /\ proc[p2].op = "score" /\ proc[p2].pc = "done"
             /\ proc[p1].args = proc[p2].args)
            => proc[p1].ret = proc[p2].ret)
    /\ [][\A p \in Procs :
            (proc[p].pc = "idle" /\ proc'[p].op = "score")
            => /\ UNCHANGED <<chat, persistent, counters, vector_store,
                              query_cache, obs>>
               /\ \A o \in Procs \ {p} : proc'[o] = proc[o]]_vars

\* an answer whose factors add up to 13 (5 + 3 + 2 + 3) has been given 10,
\* and the other caller has evaluated the same answer
C29_Witness ==
    /\ \A p \in Procs : proc[p].op = "score" /\ proc[p].pc = "done"
    /\ proc[1].args = proc[2].args
    /\ length_score(proc[1].args) = 5
    /\ keyword_score(proc[1].args) = 3
    /\ readability_points(proc[1].args) = 2
    /\ relevance_score(proc[1].args) = 3
    /\ proc[1].ret = 10

\* C30 (as stated): the empty answer, evaluated without a context, is
\* given 0.
C30_EmptyAnswerScoresZero ==
    \A p \in Procs :
       (/\ proc[p].op = "score" /\ proc[p].pc = "done"
        /\ proc[p].args.words = 0 /\ ~proc[p].args.context)
       => proc[p].ret = 0

\* the ways to cut a list of m chunks into n consecutive blocks, as the
\* index of the last chunk of each block
Cuts(n, m) ==
    {c \in [0..n -> 0..m] :
        /\ c[0] = 0 /\ c[n] = m
        /\ \A i \in 1..n : c[i - 1] <= c[i]}

\* C31: the chunks made of an extracted content are, in the order of the
\* units, the chunks of each unit: every chunk carries the kind and the
\* header (headers) of its unit; a text unit yields text chunks of at most
\* ChunkSize characters; a table unit yields exactly one chunk, the JSON
\* text of all its rows, also when that is longer than ChunkSize.
C31_ChunkingContract ==
    \A p \in Procs :
       (proc[p].op = "chunk" /\ proc[p].pc = "done")
       => LET content == proc[p].args
              chunks == proc[p].ret
          IN  \E c \in Cuts(Len(content), Len(chunks)) :
                 \A i \in 1..Len(content) :
                    /\ \A k \in (c[i - 1] + 1)..c[i] :
                          /\ chunks[k].metadata.type = content[i].type
                          /\ chunks[k].metadata.header = content[i].header
                          /\ content[i].type = "text"
                             => /\ chunks[k].content.of = "text"
                                /\ chunks[k].content.len \in 1..ChunkSize
                    /\ content[i].type = "table"
                       => /\ c[i] = c[i - 1] + 1
                          /\ chunks[c[i]].content =
                                [of |-> "json", len |-> content[i].content[1]]

\* a text of 2302 characters under header 1 has been split into several
\* chunks, and the table after it, of 1500 characters, is one chunk
C31_Witness ==
    /\ proc[1].op = "chunk" /\ proc[1].pc = "done"
    /\ Len(proc[1].args) = 2
    /\ proc[1].args[1] =
          [type |-> "text", header |-> 1, content |-> << 600, 1700 >>]
    /\ proc[1].args[2] =
          [type |-> "table", header |-> 2, content |-> << 1500 >>]
    /\ Len(proc[1].ret) = 4
    /\ proc[1].ret[3].metadata = [type |-> "text", header |-> 1]
    /\ proc[1].ret[4] = [content |-> [of |-> "json", len |-> 1500],
                         metadata |-> [type |-> "table", header |-> 2]]

\* C32 (as stated): an error the orchestrator raises itself (no index
\* available, invalid session id, session not found) reaches the caller as
\* raised, not replaced by the generic unexpected error.
C32_DeliberateErrorsKeepKind ==
    \A p \in Procs :
       (/\ proc[p].pc = "done"
        /\ proc[p].op \in {"single", "chat", "clear"}
        /\ proc[p].out \in NoIndexAvailable \cup SessionErrors)
       => proc[p].wraps = 0

\* the chunk contents of the index in memory
StoreContents(vs) == {vs.docs[i].content : i \in 1..Len(vs.docs)}

\* C33 (as stated; requests one at a time): when a file is uploaded whose
\* document is registered and has chunks, while the persisted index does
\* not hold them, the upload succeeds and leaves in memory a loaded index
\* that holds the document's chunks.
C33_GapRecoveredByReupload ==
    [][\A p \in Procs :
         (/\ proc[p].op = "upload"
          /\ proc[p].pc # "done" /\ proc'[p].pc = "done"
          /\ ~proc'[p].wrote
          /\ PathExists(proc[p].path)
          /\ HashSelected(registry, files[proc[p].path])
          /\ IndexedContents(files[proc[p].path]) # {}
          /\ ~(IndexedContents(files[proc[p].path]) \subseteq DiskContents))
         => /\ proc'[p].out = "ok"
            /\ is_loaded(vector_store')
            /\ IndexedContents(files[proc[p].path])
                  \subseteq StoreContents(vector_store')]_vars

\* C34 (as stated): for every session id the history the generation step
\* summarises equals the history the orchestrator reports, and the prompt
\* of a chat request is built from the summary of the history the
\* orchestrator holds for its session: an empty one after a clear.
C34_OneConversationView ==
    /\ [](\A s \in DOMAIN conversations \cup DOMAIN llm_conversations :
            IsUuid(s)
            => get_conversation_history(llm_conversations, s)
                  = get_conversation_history(conversations, s))
    /\ [][\A p \in Procs :
            (/\ proc[p].pc # "gen" /\ proc'[p].pc = "gen"
             /\ proc'[p].op = "chat")
            => proc'[p].prompt[2] =
                  get_conversation_summary(conversations, proc'[p].sid)]_vars

\* how the index-readiness step of a request ended: with the no-index
\* error, with another error of the step, or ready (the request went on)
EnsureOutcome(rec) ==
    IF rec.out \in NoIndexAvailable THEN "NoIndexAvailable"
    ELSE IF rec.out \in {"TypeError", "IndexNotFound"} THEN rec.out
    ELSE "ready"

\* C35 (as stated): a single query and a chat request that were started
\* from the same state with the same file argument have ended their
\* index-readiness step with the same outcome: ready, or the same error
\* kind.
C35_SameEnsureOutcome ==
    (/\ proc[1].op = "single" /\ proc[1].pc = "done"
     /\ proc[2].op = "chat" /\ proc[2].pc = "done"
     /\ proc[1].path = proc[2].path)
    => EnsureOutcome(proc[1]) = EnsureOutcome(proc[2])


\* C36: under concurrent uploads of different documents, once every upload
\* has completed the persisted index is loadable and a load of it yields
\* the index that is in memory.
C36_DiskEqualsMemoryAfterUploads ==
    (/\ \A p \in Procs :
           proc[p].op = "upload" /\ proc[p].pc = "done" /\ proc[p].out = "ok"
     /\ proc[1].path # proc[2].path
     /\ files[proc[1].path] # files[proc[2].path])
    => /\ vector_store_exists(disk)
       /\ LoadLocal(disk) = vector_store


\* C37 (requests one at a time, observed between requests): when the
\* last-ingested pointer is set and the index is loaded, the index in
\* memory is the index of the chunks of a document registered under the
\* path the pointer names.
C37_IndexIsOfLastIngested ==
    (Quiet /\ lastPdf # NoPath /\ is_loaded(vector_store))
    => \E i \in 1..Len(registry) :
          /\ registry[i].file_path = lastPdf
          /\ vector_store = IndexOf(registry[i].file_hash)


\* the session ids either manager knows before or after a step
SessionsOfStep ==
    DOMAIN conversations \cup DOMAIN conversations'
       \cup DOMAIN llm_conversations \cup DOMAIN llm_conversations'

\* the step leaves every session but s as it was, in both managers
OnlySession(s) ==
    \A t \in SessionsOfStep \ {s} :
       /\ get_conversation(conversations', t) = get_conversation(conversations, t)
       /\ get_conversation(llm_conversations', t)
             = get_conversation(llm_conversations, t)

\* C38: the appends of a chat request on session s and a clear of s leave
\* the history of every other session unchanged; the step that takes the
\* summary for the prompt changes no session, and the history a chat
\* request returns is that of the state it leaves.
C38_SessionIsolation ==
    [][\A p \in Procs :
         /\ (proc[p].pc = "gen" /\ proc'[p].pc = "done")
            => /\ OnlySession(proc[p].sid)
               /\ proc'[p].op = "chat"
                  => proc'[p].hist = get_conversation_history(
                                         conversations', proc[p].sid)
         /\ (proc[p].pc = "idle" /\ proc'[p].op = "clear")
            => OnlySession(proc'[p].sid)
         /\ (proc[p].pc # "gen" /\ proc'[p].pc = "gen")
            => UNCHANGED <<conversations, llm_conversations>>]_vars

\* a session has been cleared while another session has a history, and a
\* chat request has ended while another session has a history
C38_Witness ==
    \E p, r \in Procs :
       /\ proc[p].op = "clear" /\ proc[p].pc = "done" /\ proc[p].out = "ok"
       /\ proc[r].op = "chat" /\ proc[r].pc = "done" /\ proc[r].out = "ok"
       /\ \E t \in DOMAIN conversations :
             /\ t # proc[p].sid /\ t # proc[r].sid
             /\ conversations[t] # << >>


\* C39: is_valid_session judges a session by its last access before the
\* call: for a known session last accessed longer ago than session_timeout
\* it returns False and deletes the session; for a known session accessed
\* within the timeout it returns True; for an unknown id it returns False.
C39_ValidityByLastAccess ==
    [][(proc[1].pc = "idle" /\ proc'[1].op = "is_valid_session")
       => LET s == proc'[1].sid
          IN  IF s \notin DOMAIN sessions
              THEN proc'[1].ret = << FALSE >>
              ELSE IF now - sessions[s].last_accessed > session_timeout
              THEN proc'[1].ret = << FALSE >> /\ s \notin DOMAIN sessions'
              ELSE proc'[1].ret = << TRUE >>]_vars


\* C40: a load fails with the not-found error when index.faiss or
\* index.pkl is absent, and a failed load leaves the in-memory index and
\* the directory as they were; a save without an index fails with the
\* not-built error and writes nothing.
C40_FailedLoadAndSaveChangeNothing ==
    [][/\ (proc[1].pc = "idle" /\ proc'[1].op = "load")
          => /\ ~(disk.faiss /\ disk.pkl)
                => proc'[1].pc = "done" /\ proc'[1].out = "IndexNotFound"
             /\ proc'[1].out = "IndexNotFound"
                => UNCHANGED <<vector_store, disk>>
       /\ (proc[1].pc = "idle" /\ proc'[1].op = "save"
           /\ ~vector_store.present)
          => /\ proc'[1].pc = "done" /\ proc'[1].out = "NotCreated"
             /\ UNCHANGED <<vector_store, disk>>]_vars

\* a load has failed on a directory that lacks one of the two files while
\* a built index is in memory
C40_Witness ==
    /\ proc[1].op = "load" /\ proc[1].pc = "done"
    /\ proc[1].out = "IndexNotFound"
    /\ disk.faiss # disk.pkl
    /\ is_loaded(vector_store)

====
